---- MODULE Spec2Model ----
(***************************************************************************)
(* Model of the ferrum-movegen chess move generator: board state, Zobrist  *)
(* hashing, attack tables, legal move generation, make / unmake.           *)
(*                                                                         *)
(* A Bitboard (u64) is the set of its set bit positions (squares 0..63);   *)
(* |, &, ^ and ! are union, intersection, symmetric difference and         *)
(* complement in 0..63.  A plain u64 (hash, Zobrist key) is likewise the   *)
(* set of its one-bits, so XOR and the xorshift generator are exact.       *)
(* An Option<T> is a set with at most one element.                         *)
(***************************************************************************)
EXTENDS Integers, Sequences, FiniteSets, TLC

(***************************************************************************)
(* Primitive types (types/piece.rs, types/square.rs)                       *)
(***************************************************************************)
White == 0
Black == 1
Colors == {White, Black}

Pawn == 0
Knight == 1
Bishop == 2
Rook == 3
Queen == 4
King == 5
Pieces == {Pawn, Knight, Bishop, Rook, Queen, King}

\* impl Not for Color
NotColor(c) == IF c = White THEN Black ELSE White

Squares == 0..63

A1 == 0
C1 == 2
D1 == 3
E1 == 4
F1 == 5
G1 == 6
H1 == 7
A8 == 56
C8 == 58
D8 == 59
E8 == 60
F8 == 61
G8 == 62
H8 == 63

\* Square::file: index & 7 ; Square::rank: index >> 3
FileOf(sq) == sq % 8
RankOf(sq) == sq \div 8

\* Square::from_file_rank
from_file_rank(file, rank) == rank * 8 + file

\* Square::north / Square::south (Option<Square>)
SquareNorth(sq) == IF sq < 56 THEN {sq + 8} ELSE {}
SquareSouth(sq) == IF sq >= 8 THEN {sq - 8} ELSE {}

(***************************************************************************)
(* Bitboard (bitboard/mod.rs)                                              *)
(***************************************************************************)
EMPTY == {}
UNIVERSE == Squares

Xor(a, b) == (a \ b) \cup (b \ a)
BitNot(a) == Squares \ a

\* u64 << n and u64 >> n: bits shifted past either end are dropped
Shl(bb, n) == {s + n : s \in {t \in bb : t + n <= 63}}
Shr(bb, n) == {s - n : s \in {t \in bb : t - n >= 0}}

FILE_A == {s \in Squares : s % 8 = 0}
FILE_H == {s \in Squares : s % 8 = 7}
NOT_FILE_A == BitNot(FILE_A)
NOT_FILE_H == BitNot(FILE_H)
NOT_FILE_AB == {s \in Squares : s % 8 \notin {0, 1}}
NOT_FILE_GH == {s \in Squares : s % 8 \notin {6, 7}}
RANK_1 == 0..7
RANK_4 == 24..31
RANK_5 == 32..39

BETWEEN_E1_G1 == {5, 6}
BETWEEN_E1_C1 == {1, 2, 3}
BETWEEN_E8_G8 == {61, 62}
BETWEEN_E8_C8 == {57, 58, 59}

\* Bitboard::rank_mask: RANK_1 << (rank * 8)
rank_mask(rank) == Shl(RANK_1, rank * 8)

north(bb) == Shl(bb, 8)
south(bb) == Shr(bb, 8)

more_than_one(bb) == Cardinality(bb) > 1
exactly_one(bb) == Cardinality(bb) = 1

\* trailing_zeros: the least set bit, 64 for the empty board
lsb_unchecked(bb) == IF bb = {} THEN 64 ELSE CHOOSE s \in bb : \A t \in bb : s <= t

\* BitIterator: the squares of bb in lsb-first order
RECURSIVE BitSeq(_)
BitSeq(bb) ==
    IF bb = {} THEN <<>>
    ELSE LET s == lsb_unchecked(bb) IN <<s>> \o BitSeq(bb \ {s})

\* concatenation of f(s) over a sequence of squares (a for loop that pushes)
RECURSIVE FlatMap(_, _)
FlatMap(f(_), seq) ==
    IF seq = <<>> THEN <<>> ELSE f(Head(seq)) \o FlatMap(f, Tail(seq))

(***************************************************************************)
(* Attack tables (attacks/*.rs)                                            *)
(***************************************************************************)
generate_knight_attacks ==
    [sq \in Squares |->
        LET bb == {sq} IN
             (Shl(bb, 17) \cap BitNot(FILE_A))
        \cup (Shl(bb, 15) \cap BitNot(FILE_H))
        \cup Shl(bb \cap NOT_FILE_GH, 10)
        \cup Shl(bb \cap NOT_FILE_AB, 6)
        \cup (Shr(bb, 15) \cap BitNot(FILE_A))
        \cup (Shr(bb, 17) \cap BitNot(FILE_H))
        \cup Shr(bb \cap NOT_FILE_GH, 6)
        \cup Shr(bb \cap NOT_FILE_AB, 10)]

knight_attacks(sq) == generate_knight_attacks[sq]

generate_king_attacks ==
    [sq \in Squares |->
        LET bb == {sq} IN
             Shl(bb, 8)
        \cup Shr(bb, 8)
        \cup (Shl(bb, 1) \cap BitNot(FILE_A))
        \cup (Shr(bb, 1) \cap BitNot(FILE_H))
        \cup (Shl(bb, 9) \cap BitNot(FILE_A))
        \cup (Shl(bb, 7) \cap BitNot(FILE_H))
        \cup (Shr(bb, 7) \cap BitNot(FILE_A))
        \cup (Shr(bb, 9) \cap BitNot(FILE_H))]

king_attacks(sq) == generate_king_attacks[sq]

generate_pawn_attacks ==
    [c \in Colors |-> [sq \in Squares |->
        LET bb == {sq} IN
        IF c = White
        THEN (Shl(bb, 9) \cap BitNot(FILE_A)) \cup (Shl(bb, 7) \cap BitNot(FILE_H))
        ELSE (Shr(bb, 7) \cap BitNot(FILE_A)) \cup (Shr(bb, 9) \cap BitNot(FILE_H))]]

pawn_attacks(c, sq) == generate_pawn_attacks[c][sq]

\* One loop of rook_attacks_slow / bishop_attacks_slow: walk from (f, r) in
\* direction (df, dr), adding each square and stopping after the first blocker.
RECURSIVE RayWalk(_, _, _, _, _)
RayWalk(f, r, df, dr, occ) ==
    IF f < 0 \/ f > 7 \/ r < 0 \/ r > 7 THEN {}
    ELSE LET s == r * 8 + f IN
         IF s \in occ THEN {s} ELSE {s} \cup RayWalk(f + df, r + dr, df, dr, occ)

rook_attacks_slow(sq, occ) ==
    LET file == sq % 8
        rank == sq \div 8
    IN       RayWalk(file, rank + 1, 0, 1, occ)
        \cup RayWalk(file, rank - 1, 0, -1, occ)
        \cup RayWalk(file + 1, rank, 1, 0, occ)
        \cup RayWalk(file - 1, rank, -1, 0, occ)

bishop_attacks_slow(sq, occ) ==
    LET file == sq % 8
        rank == sq \div 8
    IN       RayWalk(file + 1, rank + 1, 1, 1, occ)
        \cup RayWalk(file - 1, rank + 1, -1, 1, occ)
        \cup RayWalk(file + 1, rank - 1, 1, -1, occ)
        \cup RayWalk(file - 1, rank - 1, -1, -1, occ)

\* Relevant-occupancy masks: the rays without their last (edge) square.
RECURSIVE MaskWalk(_, _, _, _)
MaskWalk(f, r, df, dr) ==
    IF f + df < 0 \/ f + df > 7 \/ r + dr < 0 \/ r + dr > 7 THEN {}
    ELSE {r * 8 + f} \cup MaskWalk(f + df, r + dr, df, dr)

rook_mask_table ==
    [sq \in Squares |->
        LET file == sq % 8
            rank == sq \div 8
        IN  ({s \in Squares : s % 8 = file /\ s \div 8 \in (rank + 1)..6})
       \cup ({s \in Squares : s % 8 = file /\ s \div 8 \in 1..(rank - 1)})
       \cup ({s \in Squares : s \div 8 = rank /\ s % 8 \in (file + 1)..6})
       \cup ({s \in Squares : s \div 8 = rank /\ s % 8 \in 1..(file - 1)})]

rook_mask(sq) == rook_mask_table[sq]

bishop_mask_table ==
    [sq \in Squares |->
        LET file == sq % 8
            rank == sq \div 8
        IN   MaskWalk(file + 1, rank + 1, 1, 1)
        \cup MaskWalk(file - 1, rank + 1, -1, 1)
        \cup MaskWalk(file + 1, rank - 1, 1, -1)
        \cup MaskWalk(file - 1, rank - 1, -1, -1)]

bishop_mask(sq) == bishop_mask_table[sq]

\* ROOK_ATTACKS[magic.index(occ)]: the table slot of the relevant occupancy
\* occ & mask, which init_rook_attacks filled with rook_attacks_slow of it.
\* The move generator reads the tables in this form; the tables themselves
\* are filled and read slot by slot under SpecMagic.
rook_attacks(sq, occ) == rook_attacks_slow(sq, occ \cap rook_mask(sq))

bishop_attacks(sq, occ) == bishop_attacks_slow(sq, occ \cap bishop_mask(sq))

(***************************************************************************)
(* Magic lookup (attacks/magic/mod.rs, rook.rs, bishop.rs).  A u64 that is *)
(* multiplied is kept as its four 16-bit limbs, the least significant      *)
(* first; a Bitboard stays the set of its squares.                         *)
(***************************************************************************)
\* the 64 rook magic numbers, a1 first
ROOK_MAGIC_NUMBERS ==
    <<<<128, 8256, 16, 128>>, <<64, 32, 16, 64>>,
      <<128, 32, 2064, 128>>, <<128, 16, 1032, 128>>,
      <<128, 8, 516, 128>>, <<128, 4, 258, 128>>,
      <<512, 256, 128, 128>>, <<256, 16512, 32, 128>>,
      <<128, 8256, 32768, 0>>, <<20480, 8192, 16384, 0>>,
      <<128, 32, 32784, 0>>, <<128, 16, 32776, 0>>,
      <<128, 8, 32772, 0>>, <<128, 4, 32770, 0>>,
      <<128, 2, 32769, 0>>, <<256, 16512, 32768, 0>>,
      <<128, 64, 8320, 0>>, <<4096, 32, 16448, 0>>,
      <<8192, 4096, 32896, 0>>, <<4096, 2048, 32896, 0>>,
      <<2048, 1024, 32896, 0>>, <<1024, 512, 32896, 0>>,
      <<4, 2, 257, 0>>, <<33028, 64, 512, 0>>,
      <<16384, 32768, 8320, 0>>, <<20480, 16384, 8192, 0>>,
      <<128, 32800, 4096, 0>>, <<128, 32784, 2048, 0>>,
      <<128, 32776, 1024, 0>>, <<128, 32772, 512, 0>>,
      <<512, 32896, 256, 0>>, <<16640, 32768, 32768, 0>>,
      <<128, 128, 8256, 0>>, <<4096, 16448, 8192, 0>>,
      <<8192, 32896, 4096, 0>>, <<4096, 32896, 2048, 0>>,
      <<2048, 32896, 1024, 0>>, <<1024, 32896, 512, 0>>,
      <<4, 257, 512, 0>>, <<256, 16512, 32768, 0>>,
      <<32768, 128, 8256, 0>>, <<32896, 16384, 8192, 0>>,
      <<32896, 8192, 4096, 0>>, <<32896, 4096, 2048, 0>>,
      <<32896, 2048, 1024, 0>>, <<32896, 1024, 512, 0>>,
      <<32896, 512, 256, 0>>, <<4, 33026, 64, 0>>,
      <<128, 128, 8256, 0>>, <<32896, 16384, 8192, 0>>,
      <<32896, 8192, 4096, 0>>, <<32896, 4096, 2048, 0>>,
      <<32896, 2048, 1024, 0>>, <<32896, 1024, 512, 0>>,
      <<128, 2, 32769, 0>>, <<128, 16640, 32768, 0>>,
      <<29002, 64749, 64733, 255>>, <<29002, 64749, 64733, 127>>,
      <<32918, 65496, 65485, 63>>, <<8449, 4096, 1032, 0>>,
      <<17, 1032, 2, 1>>, <<2049, 1024, 2, 1>>,
      <<1025, 33280, 0, 1>>, <<53666, 44026, 65530, 1>>>>

\* the 64 bishop magic numbers, a1 first
BISHOP_MAGIC_NUMBERS ==
    <<<<512, 514, 514, 2>>, <<0, 514, 514, 2>>,
      <<0, 512, 258, 4>>, <<0, 32768, 1024, 4>>,
      <<0, 0, 4160, 1>>, <<0, 16384, 33296, 0>>,
      <<0, 4160, 16644, 0>>, <<16384, 1040, 4161, 0>>,
      <<1024, 1028, 1028, 0>>, <<512, 514, 514, 0>>,
      <<0, 514, 1025, 0>>, <<0, 128, 1028, 0>>,
      <<0, 16384, 272, 0>>, <<0, 4160, 130, 0>>,
      <<16384, 1040, 65, 0>>, <<8192, 33288, 32, 0>>,
      <<2048, 2056, 8, 4>>, <<1024, 1028, 4, 2>>,
      <<512, 514, 2, 1>>, <<16384, 512, 32776, 0>>,
      <<0, 160, 32772, 0>>, <<16384, 136, 8193, 0>>,
      <<8192, 33288, 16384, 0>>, <<4096, 16644, 8192, 0>>,
      <<4096, 4112, 2048, 2>>, <<2048, 2056, 1024, 1>>,
      <<1024, 1025, 8320, 0>>, <<512, 1025, 16448, 0>>,
      <<8192, 128, 33792, 0>>, <<4096, 513, 16448, 0>>,
      <<4096, 260, 32896, 0>>, <<2048, 130, 16448, 0>>,
      <<8192, 32, 1040, 1>>, <<4096, 16, 33288, 0>>,
      <<2048, 8, 4164, 0>>, <<128, 32776, 512, 0>>,
      <<256, 16388, 16448, 0>>, <<256, 2, 32897, 0>>,
      <<2048, 2, 257, 1>>, <<1024, 32769, 32896, 0>>,
      <<16384, 8192, 33288, 0>>, <<8192, 4096, 16644, 0>>,
      <<4096, 34816, 2080, 0>>, <<2048, 4352, 32, 0>>,
      <<1024, 64, 2049, 0>>, <<512, 256, 257, 1>>,
      <<1024, 512, 514, 2>>, <<512, 256, 257, 1>>,
      <<0, 4160, 16644, 0>>, <<0, 2080, 8322, 0>>,
      <<0, 33808, 32, 0>>, <<0, 8328, 0, 0>>,
      <<0, 514, 16, 0>>, <<0, 2050, 1028, 0>>,
      <<0, 1028, 1028, 4>>, <<0, 514, 514, 2>>,
      <<16384, 1040, 4161, 0>>, <<8192, 33288, 32, 0>>,
      <<4096, 8324, 0, 0>>, <<34816, 32, 0, 0>>,
      <<512, 4098, 0, 0>>, <<512, 1032, 4, 0>>,
      <<1024, 1028, 1028, 0>>, <<512, 514, 514, 2>>>>

\* (m << n) on a u64, n < 64: the bits pushed past bit 63 are lost
ShlLimbs(m, n) ==
    LET q == n \div 16
        p == 2 ^ (n % 16)
        lo == [i \in 1..4 |-> (m[i] * p) % 65536]
        hi == [i \in 1..4 |-> (m[i] * p) \div 65536]
    IN  [i \in 1..4 |->
            (IF i - q >= 1 THEN lo[i - q] ELSE 0)
          + (IF i - q - 1 >= 1 THEN hi[i - q - 1] ELSE 0)]

\* the sum of the magic shifted to each bit of a bitboard, limb by limb and
\* without the carries
RECURSIVE SumShifted(_, _)
SumShifted(bits, magic) ==
    IF bits = <<>> THEN <<0, 0, 0, 0>>
    ELSE LET a == ShlLimbs(magic, Head(bits))
             b == SumShifted(Tail(bits), magic)
         IN  [i \in 1..4 |-> a[i] + b[i]]

\* u64::wrapping_mul of a bitboard and a magic number: the product modulo
\* 2^64, the carries taken from limb to limb
wrapping_mul(relevant, magic) ==
    LET s == SumShifted(BitSeq(relevant), magic)
        c1 == s[1] \div 65536
        c2 == (s[2] + c1) \div 65536
        c3 == (s[3] + c2) \div 65536
    IN  <<s[1] % 65536, (s[2] + c1) % 65536, (s[3] + c2) % 65536, (s[4] + c3) % 65536>>

\* a shift by one bit too many
HashShr_one_more(hash, shift) == hash[4] \div (2 ^ (shift - 47))

\* (hash >> shift) as usize, for the shifts 64 - bits of the masks, which
\* have between 5 and 12 bits
HashShr(hash, shift) == hash[4] \div (2 ^ (shift - 48))

\* Magic::index
Magic_index(m, occ) ==
    m.offset + HashShr(wrapping_mul(occ \cap m.mask, m.magic), m.shift)

\* "1usize << bits" of a mask
TableSize(mask) == 2 ^ Cardinality(mask)

\* the offset of a square in the attack table: the sizes of the squares
\* before it
RECURSIVE TableOffset(_, _)
TableOffset(masks, sq) ==
    IF sq = 0 THEN 0 ELSE TableOffset(masks, sq - 1) + TableSize(masks[sq - 1])

\* init_rook_magics / init_bishop_magics: the entry of one square
init_rook_magics(sq) ==
    [mask |-> rook_mask(sq),
     magic |-> ROOK_MAGIC_NUMBERS[sq + 1],
     offset |-> TableOffset(rook_mask_table, sq),
     shift |-> 64 - Cardinality(rook_mask(sq))]

init_bishop_magics(sq) ==
    [mask |-> bishop_mask(sq),
     magic |-> BISHOP_MAGIC_NUMBERS[sq + 1],
     offset |-> TableOffset(bishop_mask_table, sq),
     shift |-> 64 - Cardinality(bishop_mask(sq))]

\* "reconstruct occupancy from index": bit i of idx chooses the i-th square
\* of the mask, counted from the lowest
OccOfIndex(mask, idx) ==
    LET sqs == BitSeq(mask) IN
    {sqs[i] : i \in {j \in 1..Len(sqs) : (idx \div (2 ^ (j - 1))) % 2 = 1}}

\* sign of an i8 difference
Sgn(x) == IF x = 0 THEN 0 ELSE IF x > 0 THEN 1 ELSE -1
Abs(x) == IF x < 0 THEN -x ELSE x

\* a walk that takes the far square too
RECURSIVE BetweenWalk_inclusive(_, _, _)
BetweenWalk_inclusive(pos, sq2, delta) ==
    IF pos >= 0 /\ pos < 64
    THEN {pos} \cup (IF pos = sq2 THEN {} ELSE BetweenWalk_inclusive(pos + delta, sq2, delta))
    ELSE {}

RECURSIVE BetweenWalk(_, _, _)
BetweenWalk(pos, sq2, delta) ==
    IF pos # sq2 /\ pos >= 0 /\ pos < 64
    THEN {pos} \cup BetweenWalk(pos + delta, sq2, delta)
    ELSE {}

generate_between ==
    [sq1 \in Squares |-> [sq2 \in Squares |->
        IF sq1 = sq2 THEN {}
        ELSE
        LET df == (sq2 % 8) - (sq1 % 8)
            dr == (sq2 \div 8) - (sq1 \div 8)
            on_line == \/ (df = 0 /\ dr # 0)
                       \/ (dr = 0 /\ df # 0)
                       \/ Abs(df) = Abs(dr)
            delta == Sgn(dr) * 8 + Sgn(df)
        IN  IF on_line THEN BetweenWalk(sq1 + delta, sq2, delta) ELSE {}]]

between(sq1, sq2) == generate_between[sq1][sq2]

\* "Go to one end of the line": step back while the next square is on the board
RECURSIVE LineStart(_, _, _)
LineStart(pos, dfn, drn) ==
    IF pos >= 0 /\ pos < 64
    THEN LET new_f == (pos % 8) - dfn
             new_r == (pos \div 8) - drn
         IN  IF new_f < 0 \/ new_f > 7 \/ new_r < 0 \/ new_r > 7
             THEN pos
             ELSE LineStart(pos - (drn * 8 + dfn), dfn, drn)
    ELSE pos

\* "Walk the entire line"
RECURSIVE LineWalk(_, _, _)
LineWalk(pos, dfn, drn) ==
    IF pos >= 0 /\ pos < 64
    THEN LET new_f == (pos % 8) + dfn
             new_r == (pos \div 8) + drn
         IN  IF new_f < 0 \/ new_f > 7 \/ new_r < 0 \/ new_r > 7
             THEN {pos}
             ELSE {pos} \cup LineWalk(pos + (drn * 8 + dfn), dfn, drn)
    ELSE {}

generate_lines ==
    [sq1 \in Squares |-> [sq2 \in Squares |->
        LET df == (sq2 % 8) - (sq1 % 8)
            dr == (sq2 \div 8) - (sq1 \div 8)
            on_line == \/ (df = 0 /\ dr # 0)
                       \/ (dr = 0 /\ df # 0)
                       \/ (Abs(df) = Abs(dr) /\ df # 0)
        IN  IF on_line
            THEN LineWalk(LineStart(sq1, Sgn(df), Sgn(dr)), Sgn(df), Sgn(dr))
            ELSE {}]]

line(sq1, sq2) == generate_lines[sq1][sq2]

(***************************************************************************)
(* Zobrist keys (board/zobrist.rs)                                         *)
(***************************************************************************)
\* 0x3243F6A8885A308D
ZobristSeed == {0, 2, 3, 7, 12, 13, 17, 19, 20, 22, 27, 31, 35, 37, 39, 41, 42,
                44, 45, 46, 47, 48, 49, 54, 57, 60, 61}

\* next_rand!: xorshift 13 / 7 / 17 on a u64
next_rand(state) ==
    LET s1 == Xor(state, Shl(state, 13))
        s2 == Xor(s1, Shr(s1, 7))
    IN  Xor(s2, Shl(s2, 17))

\* the keys in generation order: 6*2*64 piece-square keys, the side key,
\* 16 castling keys, 8 en-passant file keys
NumZobristKeys == 6 * 2 * 64 + 1 + 16 + 8

\* the n keys the generator yields from a state, in order; the second half
\* continues from the last state of the first
RECURSIVE GenKeys(_, _)
GenKeys(n, state) ==
    IF n = 1 THEN <<next_rand(state)>>
    ELSE LET first == GenKeys(n \div 2, state)
             rest == GenKeys(n - n \div 2, first[Len(first)])
         IN  first \o rest

ZOBRIST == GenKeys(NumZobristKeys, ZobristSeed)

piece_square(piece, color, sq) == ZOBRIST[piece * 128 + color * 64 + sq + 1]
side_key == ZOBRIST[6 * 2 * 64 + 1]
castling_key(rights) == ZOBRIST[6 * 2 * 64 + 1 + rights + 1]
ep_file_key(file) == ZOBRIST[6 * 2 * 64 + 1 + 16 + file + 1]

(***************************************************************************)
(* Castling rights (types/castling.rs): a 4-bit mask kept as a number      *)
(***************************************************************************)
NONE == 0
WHITE_KINGSIDE == 1
WHITE_QUEENSIDE == 2
BLACK_KINGSIDE == 4
BLACK_QUEENSIDE == 8

\* (bits & (1 << i)) != 0
HasBit(bits, i) == (bits \div (2 ^ i)) % 2 = 1

has_white_kingside(r) == HasBit(r, 0)
has_white_queenside(r) == HasBit(r, 1)
has_black_kingside(r) == HasBit(r, 2)
has_black_queenside(r) == HasBit(r, 3)

\* u8 & u8 and u8 | u8 on 4-bit values
BitsOf(r) == {i \in 0..3 : HasBit(r, i)}
RECURSIVE SumBits(_)
SumBits(S) == IF S = {} THEN 0 ELSE LET i == CHOOSE x \in S : TRUE IN 2 ^ i + SumBits(S \ {i})

\* CastleRights::remove: self.0 & !right.0
rights_remove(self, right) == SumBits(BitsOf(self) \ BitsOf(right))
\* CastleRights::add: self.0 | right.0
rights_add(self, right) == SumBits(BitsOf(self) \cup BitsOf(right))

\* a mask table with the two king squares only
update_mask_kings(sq) ==
    CASE sq = 4 -> 3
      [] sq = 60 -> 12
      [] OTHER -> 0

\* CastleRights::update_mask
update_mask(sq) ==
    CASE sq = 0 -> 2
      [] sq = 4 -> 3
      [] sq = 7 -> 1
      [] sq = 56 -> 8
      [] sq = 60 -> 12
      [] sq = 63 -> 4
      [] OTHER -> 0

(***************************************************************************)
(* Board (board/mod.rs)                                                    *)
(***************************************************************************)
\* Board::empty
empty_board ==
    [pieces |-> [p \in Pieces |-> {}],
     colors |-> [c \in Colors |-> {}],
     turn |-> White,
     castling |-> NONE,
     ep_square |-> {},
     halfmove_clock |-> 0,
     fullmove_number |-> 1,
     hash |-> {},
     checkers |-> {}]

occupied(b) == b.colors[0] \cup b.colors[1]
empty_squares(b) == BitNot(occupied(b))
piece_bb(b, piece) == b.pieces[piece]
piece_color_bb(b, piece, color) == b.pieces[piece] \cap b.colors[color]
us(b) == b.colors[b.turn]
them(b) == b.colors[NotColor(b.turn)]

king_square(b, color) == lsb_unchecked(piece_color_bb(b, King, color))

\* Board::piece_at: Option<(Piece, Color)>
piece_at(b, sq) ==
    IF sq \notin (b.colors[0] \cup b.colors[1]) THEN {}
    ELSE LET color == IF sq \in b.colors[0] THEN White ELSE Black IN
         IF sq \in b.pieces[0] THEN {<<Pawn, color>>}
         ELSE IF sq \in b.pieces[1] THEN {<<Knight, color>>}
         ELSE IF sq \in b.pieces[2] THEN {<<Bishop, color>>}
         ELSE IF sq \in b.pieces[3] THEN {<<Rook, color>>}
         ELSE IF sq \in b.pieces[4] THEN {<<Queen, color>>}
         ELSE {<<King, color>>}

\* self.piece_at(sq).map(|(p, _)| p).unwrap_or(Piece::Pawn)
piece_at_or_pawn(b, sq) ==
    LET pa == piece_at(b, sq) IN
    IF pa = {} THEN Pawn ELSE (CHOOSE x \in pa : TRUE)[1]

add_piece(b, sq, piece, color) ==
    [b EXCEPT !.pieces[piece] = @ \cup {sq}, !.colors[color] = @ \cup {sq},
              !.hash = Xor(@, piece_square(piece, color, sq))]

remove_piece(b, sq, piece, color) ==
    [b EXCEPT !.pieces[piece] = @ \ {sq}, !.colors[color] = @ \ {sq},
              !.hash = Xor(@, piece_square(piece, color, sq))]

move_piece(b, from, to, piece, color) ==
    [b EXCEPT !.pieces[piece] = Xor(@, {from, to}), !.colors[color] = Xor(@, {from, to}),
              !.hash = Xor(Xor(@, piece_square(piece, color, from)),
                           piece_square(piece, color, to))]

add_piece_fast(b, sq, piece, color) ==
    [b EXCEPT !.pieces[piece] = @ \cup {sq}, !.colors[color] = @ \cup {sq}]

remove_piece_fast(b, sq, piece, color) ==
    [b EXCEPT !.pieces[piece] = @ \ {sq}, !.colors[color] = @ \ {sq}]

\* a fast path that keeps the hash up to date like move_piece
move_piece_fast_keyed(b, from, to, piece, color) ==
    move_piece(b, from, to, piece, color)

move_piece_fast(b, from, to, piece, color) ==
    [b EXCEPT !.pieces[piece] = Xor(@, {from, to}), !.colors[color] = Xor(@, {from, to})]

attackers_to(b, sq, occ) ==
    LET bishops == b.pieces[Bishop] \cup b.pieces[Queen]
        rooks == b.pieces[Rook] \cup b.pieces[Queen]
    IN       (pawn_attacks(Black, sq) \cap piece_color_bb(b, Pawn, White))
        \cup (pawn_attacks(White, sq) \cap piece_color_bb(b, Pawn, Black))
        \cup (knight_attacks(sq) \cap b.pieces[Knight])
        \cup (king_attacks(sq) \cap b.pieces[King])
        \cup (bishop_attacks(sq, occ) \cap bishops)
        \cup (rook_attacks(sq, occ) \cap rooks)

compute_checkers(b) ==
    attackers_to(b, king_square(b, b.turn), occupied(b)) \cap them(b)

\* the cache left as it was
update_checkers_stale(b) == b

update_checkers(b) == [b EXCEPT !.checkers = compute_checkers(b)]

(***************************************************************************)
(* Move and MoveFlag (movegen/moves.rs): a move is its packed 16-bit value *)
(***************************************************************************)
Quiet == 0
DoublePawnPush == 1
KingCastle == 2
QueenCastle == 3
Capture == 4
EnPassant == 5
PromoKnight == 8
PromoBishop == 9
PromoRook == 10
PromoQueen == 11
PromoKnightCapture == 12
PromoBishopCapture == 13
PromoRookCapture == 14
PromoQueenCapture == 15

\* Move::NULL
MoveNull == 0

\* Move::new: from | to << 6 | flag << 12
MoveNew(from, to, flag) == from + to * 64 + flag * 4096
\* Move::from: bits & 0x3F
MoveFrom(mv) == mv % 64
\* Move::to: (bits >> 6) & 0x3F
MoveTo(mv) == (mv \div 64) % 64
\* Move::flag: from_u8((bits >> 12) as u8)
MoveFlagOf(mv) == (mv \div 4096) % 16

\* MoveFlag::is_capture: (flag & 4) != 0 || flag == 5
is_capture(flag) == (flag \div 4) % 2 = 1 \/ flag = 5
\* MoveFlag::is_promotion: (flag & 8) != 0
is_promotion(flag) == (flag \div 8) % 2 = 1

\* Piece::from_promotion_index
from_promotion_index(index) ==
    CASE index = 0 -> Knight
      [] index = 1 -> Bishop
      [] index = 2 -> Rook
      [] OTHER -> Queen

\* MoveFlag::promotion_piece (called only on promotion flags): flag & 3
promotion_piece(flag) == from_promotion_index(flag % 4)

\* the promotion flag without its capture bit
promotion_quiet(piece, capture) ==
    CASE piece = Knight -> 8
      [] piece = Bishop -> 9
      [] piece = Rook -> 10
      [] OTHER -> 11

\* MoveFlag::promotion
promotion(piece, capture) ==
    LET base == CASE piece = Knight -> 8
                  [] piece = Bishop -> 9
                  [] piece = Rook -> 10
                  [] piece = Queen -> 11
                  [] OTHER -> 11
    IN  (base + (IF capture THEN 4 ELSE 0)) % 16

(***************************************************************************)
(* Move generation (movegen/mod.rs, movegen/pawns.rs).  Every generator    *)
(* yields the sequence of moves it pushes into the sink, in push order.    *)
(***************************************************************************)
\* One pass of the two pinner loops of compute_pinned.
PinnedBy(b, potential) ==
    LET king_sq == king_square(b, b.turn)
        occ == occupied(b)
    IN  UNION {LET blockers == between(king_sq, pinner) \cap occ IN
               IF exactly_one(blockers) /\ (blockers \cap us(b)) # {}
               THEN blockers ELSE {} : pinner \in potential}

\* pins looked for on ranks and files only
compute_pinned_ortho(b) ==
    PinnedBy(b, rook_attacks(king_square(b, b.turn), EMPTY)
                \cap (piece_bb(b, Rook) \cup piece_bb(b, Queen)) \cap them(b))

compute_pinned(b) ==
    LET king_sq == king_square(b, b.turn)
        diag_sliders == (piece_bb(b, Bishop) \cup piece_bb(b, Queen)) \cap them(b)
        potential_diag == bishop_attacks(king_sq, EMPTY) \cap diag_sliders
        ortho_sliders == (piece_bb(b, Rook) \cup piece_bb(b, Queen)) \cap them(b)
        potential_ortho == rook_attacks(king_sq, EMPTY) \cap ortho_sliders
    IN  PinnedBy(b, potential_diag) \cup PinnedBy(b, potential_ortho)

\* the flag chosen by looking at the mover's own pieces
CaptureOrQuiet_us(b, to) == IF to \in us(b) THEN Capture ELSE Quiet

\* the Capture / Quiet flag of a piece move to `to`
CaptureOrQuiet(b, to) == IF to \in them(b) THEN Capture ELSE Quiet

\* the inner loop "for to in attacks { push(Move::new(from, to, flag)) }"
PushAttacks(b, from, attacks) ==
    FlatMap(LAMBDA to : <<MoveNew(from, to, CaptureOrQuiet(b, to))>>, BitSeq(attacks))

\* the knight pass with the pinned knights left in
generate_knight_moves_pinned(b, target, pinned) ==
    FlatMap(LAMBDA from : PushAttacks(b, from, knight_attacks(from) \cap target),
            BitSeq(piece_color_bb(b, Knight, b.turn)))

generate_knight_moves(b, target, pinned) ==
    LET knights == piece_color_bb(b, Knight, b.turn) \cap BitNot(pinned) IN
    FlatMap(LAMBDA from : PushAttacks(b, from, knight_attacks(from) \cap target),
            BitSeq(knights))

\* the shared body of generate_bishop_moves / rook / queen for one slider
SliderMoves(b, from, raw_attacks, target, pinned) ==
    LET king_sq == king_square(b, b.turn)
        attacks0 == raw_attacks \cap target
        attacks == IF from \in pinned THEN attacks0 \cap line(king_sq, from) ELSE attacks0
    IN  PushAttacks(b, from, attacks)

\* the bishop pass taking the queens along as diagonal sliders
generate_bishop_moves_diagonal(b, target, pinned) ==
    LET occ == occupied(b) IN
    FlatMap(LAMBDA from : SliderMoves(b, from, bishop_attacks(from, occ), target, pinned),
            BitSeq(piece_color_bb(b, Bishop, b.turn) \cup piece_color_bb(b, Queen, b.turn)))

generate_bishop_moves(b, target, pinned) ==
    LET occ == occupied(b) IN
    FlatMap(LAMBDA from : SliderMoves(b, from, bishop_attacks(from, occ), target, pinned),
            BitSeq(piece_color_bb(b, Bishop, b.turn)))

generate_rook_moves(b, target, pinned) ==
    LET occ == occupied(b) IN
    FlatMap(LAMBDA from : SliderMoves(b, from, rook_attacks(from, occ), target, pinned),
            BitSeq(piece_color_bb(b, Rook, b.turn)))

generate_queen_moves(b, target, pinned) ==
    LET occ == occupied(b) IN
    FlatMap(LAMBDA from : SliderMoves(b, from,
                              bishop_attacks(from, occ) \cup rook_attacks(from, occ),
                              target, pinned),
            BitSeq(piece_color_bb(b, Queen, b.turn)))

\* castling that tests only the square the king lands on
generate_castling_moves_landing(b, king_sq) ==
    LET occ == occupied(b)
        safe(sq) == (attackers_to(b, sq, occ) \cap them(b)) = {}
    IN  IF b.turn = White
        THEN (IF /\ has_white_kingside(b.castling)
                 /\ (occ \cap BETWEEN_E1_G1) = {} /\ safe(G1)
              THEN <<MoveNew(king_sq, G1, KingCastle)>> ELSE <<>>)
          \o (IF /\ has_white_queenside(b.castling)
                 /\ (occ \cap BETWEEN_E1_C1) = {} /\ safe(C1)
              THEN <<MoveNew(king_sq, C1, QueenCastle)>> ELSE <<>>)
        ELSE (IF /\ has_black_kingside(b.castling)
                 /\ (occ \cap BETWEEN_E8_G8) = {} /\ safe(G8)
              THEN <<MoveNew(king_sq, G8, KingCastle)>> ELSE <<>>)
          \o (IF /\ has_black_queenside(b.castling)
                 /\ (occ \cap BETWEEN_E8_C8) = {} /\ safe(C8)
              THEN <<MoveNew(king_sq, C8, QueenCastle)>> ELSE <<>>)

generate_castling_moves(b, king_sq) ==
    LET occ == occupied(b)
        safe(sq) == (attackers_to(b, sq, occ) \cap them(b)) = {}
    IN  IF b.turn = White
        THEN (IF /\ has_white_kingside(b.castling)
                 /\ (occ \cap BETWEEN_E1_G1) = {}
                 /\ safe(F1) /\ safe(G1)
              THEN <<MoveNew(king_sq, G1, KingCastle)>> ELSE <<>>)
          \o (IF /\ has_white_queenside(b.castling)
                 /\ (occ \cap BETWEEN_E1_C1) = {}
                 /\ safe(D1) /\ safe(C1)
              THEN <<MoveNew(king_sq, C1, QueenCastle)>> ELSE <<>>)
        ELSE (IF /\ has_black_kingside(b.castling)
                 /\ (occ \cap BETWEEN_E8_G8) = {}
                 /\ safe(F8) /\ safe(G8)
              THEN <<MoveNew(king_sq, G8, KingCastle)>> ELSE <<>>)
          \o (IF /\ has_black_queenside(b.castling)
                 /\ (occ \cap BETWEEN_E8_C8) = {}
                 /\ safe(D8) /\ safe(C8)
              THEN <<MoveNew(king_sq, C8, QueenCastle)>> ELSE <<>>)

generate_king_moves(b) ==
    LET king_sq == king_square(b, b.turn)
        occ == occupied(b)
        attacks == king_attacks(king_sq) \cap BitNot(us(b))
        step(to) ==
            LET new_occ == Xor(occ, {king_sq}) \cup {to} IN
            IF (attackers_to(b, to, new_occ) \cap them(b)) = {}
            THEN <<MoveNew(king_sq, to, CaptureOrQuiet(b, to))>>
            ELSE <<>>
    IN  FlatMap(step, BitSeq(attacks))
        \o (IF b.checkers = {} THEN generate_castling_moves(b, king_sq) ELSE <<>>)

\* a promotion to the queen only
add_promotions_queen(from, to, capture) ==
    <<MoveNew(from, to, promotion(Queen, capture))>>

add_promotions(from, to, capture) ==
    << MoveNew(from, to, promotion(Queen, capture)),
       MoveNew(from, to, promotion(Rook, capture)),
       MoveNew(from, to, promotion(Bishop, capture)),
       MoveNew(from, to, promotion(Knight, capture)) >>

\* en passant that relies on the pin pass alone
generate_en_passant_pinned(b, ep_sq, pinned) ==
    LET us_c == b.turn
        pawns == piece_color_bb(b, Pawn, us_c)
        attackers == pawn_attacks(NotColor(us_c), ep_sq) \cap pawns
        step(from) ==
            IF from \in pinned /\ ep_sq \notin line(king_square(b, us_c), from)
            THEN <<>>
            ELSE <<MoveNew(from, ep_sq, EnPassant)>>
    IN  FlatMap(step, BitSeq(attackers))

generate_en_passant(b, ep_sq, pinned) ==
    LET us_c == b.turn
        pawns == piece_color_bb(b, Pawn, us_c)
        attackers == pawn_attacks(NotColor(us_c), ep_sq) \cap pawns
        step(from) ==
            LET cap_sq == IF us_c = White THEN ep_sq - 8 ELSE ep_sq + 8
                king_sq == king_square(b, us_c)
                occ == Xor(Xor(occupied(b), {from}), {cap_sq}) \cup {ep_sq}
                rooks == (piece_bb(b, Rook) \cup piece_bb(b, Queen)) \cap them(b)
                bishops == (piece_bb(b, Bishop) \cup piece_bb(b, Queen)) \cap them(b)
            IN  IF \/ (rook_attacks(king_sq, occ) \cap rooks) # {}
                   \/ (bishop_attacks(king_sq, occ) \cap bishops) # {}
                THEN <<>>
                ELSE <<MoveNew(from, ep_sq, EnPassant)>>
    IN  FlatMap(step, BitSeq(attackers))

generate_pawn_moves(b, target_mask, pinned) ==
    LET us_c == b.turn
        pawns == piece_color_bb(b, Pawn, us_c)
        empty == empty_squares(b)
        enemies == them(b)
        king_sq == king_square(b, us_c)
        push_dir == IF us_c = White THEN 8 ELSE -8
        start_rank == IF us_c = White THEN 1 ELSE 6
        promo_rank == IF us_c = White THEN 6 ELSE 1
        \* "if pinned.contains(from) && !line(king_sq, from).contains(to) continue"
        pin_ok(from, to) == from \notin pinned \/ to \in line(king_sq, from)
        shift(bb) == IF us_c = White THEN north(bb) ELSE south(bb)
        single_push_targets == shift(pawns \cap BitNot(rank_mask(promo_rank))) \cap empty
        single(to) ==
            LET from == to - push_dir IN
            IF pin_ok(from, to) THEN <<MoveNew(from, to, Quiet)>> ELSE <<>>
        double_push_pawns == pawns \cap rank_mask(start_rank)
        single_step == shift(double_push_pawns) \cap empty
        double_push_targets ==
            shift(single_step) \cap empty \cap (IF us_c = White THEN RANK_4 ELSE RANK_5)
        double(to) ==
            LET from == to - 2 * push_dir IN
            IF pin_ok(from, to) THEN <<MoveNew(from, to, DoublePawnPush)>> ELSE <<>>
        captures(from) ==
            FlatMap(LAMBDA to : IF pin_ok(from, to)
                                THEN <<MoveNew(from, to, Capture)>> ELSE <<>>,
                    BitSeq(pawn_attacks(us_c, from) \cap enemies \cap target_mask))
        promo_pawns == pawns \cap rank_mask(promo_rank)
        promos(from) ==
            LET to_opt == IF us_c = White THEN SquareNorth(from) ELSE SquareSouth(from)
                push == FlatMap(LAMBDA to :
                                  IF to \in empty /\ to \in target_mask /\ pin_ok(from, to)
                                  THEN add_promotions(from, to, FALSE) ELSE <<>>,
                                BitSeq(to_opt))
                caps == FlatMap(LAMBDA to : IF pin_ok(from, to)
                                            THEN add_promotions(from, to, TRUE) ELSE <<>>,
                                BitSeq(pawn_attacks(us_c, from) \cap enemies \cap target_mask))
            IN  push \o caps
    IN     FlatMap(single, BitSeq(single_push_targets \cap target_mask))
        \o FlatMap(double, BitSeq(double_push_targets \cap target_mask))
        \o FlatMap(captures, BitSeq(pawns \cap BitNot(rank_mask(promo_rank))))
        \o FlatMap(promos, BitSeq(promo_pawns))
        \o FlatMap(LAMBDA ep_sq : generate_en_passant(b, ep_sq, pinned), BitSeq(b.ep_square))

generate_all_moves(b) ==
    LET pinned == compute_pinned(b)
        target == BitNot(us(b))
    IN     generate_pawn_moves(b, UNIVERSE, pinned)
        \o generate_knight_moves(b, target, pinned)
        \o generate_bishop_moves(b, target, pinned)
        \o generate_rook_moves(b, target, pinned)
        \o generate_queen_moves(b, target, pinned)
        \o generate_king_moves(b)

\* the evasions with no mask on the targets
generate_evasions_unmasked(b) == generate_all_moves(b)

generate_evasions(b) ==
    LET king_sq == king_square(b, b.turn)
        checker_sq == lsb_unchecked(b.checkers)
        block_mask == between(king_sq, checker_sq) \cup b.checkers
        pinned == compute_pinned(b)
        target == block_mask \cap BitNot(us(b))
    IN     generate_pawn_moves(b, block_mask, pinned)
        \o generate_knight_moves(b, target, pinned)
        \o generate_bishop_moves(b, target, pinned)
        \o generate_rook_moves(b, target, pinned)
        \o generate_queen_moves(b, target, pinned)
        \o generate_king_moves(b)

\* every check handled as a single check
generate_moves_impl_single(b) ==
    IF b.checkers # {} THEN generate_evasions(b) ELSE generate_all_moves(b)

generate_moves_impl(b) ==
    IF more_than_one(b.checkers) THEN generate_king_moves(b)
    ELSE IF b.checkers # {} THEN generate_evasions(b)
    ELSE generate_all_moves(b)

\* the entries of the array of a MoveList
MoveListCapacity == 256

\* the MoveList after the pushes of a generation, each storing its move at
\* index count; a push at index 256 does not return (it fails the
\* debug_assert or the index check of the array), and the list is then the
\* one that was full
MoveList_fill(pushes) ==
    IF Len(pushes) <= MoveListCapacity THEN pushes
    ELSE SubSeq(pushes, 1, MoveListCapacity)

\* generate_moves: the MoveList the pushes fill
generate_moves(b) == MoveList_fill(generate_moves_impl(b))

\* generate_moves does not return: a push finds the list full
generate_moves_aborts(b) == Len(generate_moves_impl(b)) > MoveListCapacity

\* a counter that takes the promotions to one square as one move
RECURSIVE MoveCounter_fill_squares(_, _, _)
MoveCounter_fill_squares(pushes, lo, hi) ==
    IF lo > hi THEN 0
    ELSE IF lo = hi
    THEN (IF lo > 1 /\ MoveFrom(pushes[lo]) = MoveFrom(pushes[lo - 1])
                    /\ MoveTo(pushes[lo]) = MoveTo(pushes[lo - 1])
          THEN 0 ELSE 1)
    ELSE MoveCounter_fill_squares(pushes, lo, (lo + hi) \div 2)
             + MoveCounter_fill_squares(pushes, (lo + hi) \div 2 + 1, hi)

\* what the pushes lo..hi of a generation add to the count of a MoveCounter:
\* each adds one and drops its move (the count is a u64, the pushes of one
\* generation are fewer than a thousand; the pushes are taken by halves,
\* which keeps the evaluation shallow)
RECURSIVE MoveCounter_fill(_, _, _)
MoveCounter_fill(pushes, lo, hi) ==
    IF lo > hi THEN 0
    ELSE IF lo = hi THEN 1
    ELSE MoveCounter_fill(pushes, lo, (lo + hi) \div 2)
             + MoveCounter_fill(pushes, (lo + hi) \div 2 + 1, hi)

\* generate_moves_count: the count of a MoveCounter, zero at first, that the
\* pushes went to
generate_moves_count(b) ==
    LET pushes == generate_moves_impl(b) IN 0 + MoveCounter_fill(pushes, 1, Len(pushes))

(***************************************************************************)
(* Make / unmake (board/make_move.rs)                                      *)
(***************************************************************************)
\* the square one rank behind `to` from the mover's side: the ep target of
\* a double push, and the square of the pawn an en-passant capture removes
BehindSquare(us_c, to) == IF us_c = White THEN to - 8 ELSE to + 8

\* Option<(Piece, Color)> -> the piece
PieceOf(pa) == (CHOOSE x \in pa : TRUE)[1]

\* the king's rook taken for both castling moves
castle_rook_from_kingside(flag, us_c) == IF us_c = White THEN H1 ELSE H8

\* "let (rook_from, rook_to) = ..." of the two castling arms
castle_rook_from(flag, us_c) ==
    IF flag = KingCastle THEN (IF us_c = White THEN H1 ELSE H8)
    ELSE (IF us_c = White THEN A1 ELSE A8)

castle_rook_to(flag, us_c) ==
    IF flag = KingCastle THEN (IF us_c = White THEN F1 ELSE F8)
    ELSE (IF us_c = White THEN D1 ELSE D8)

\* the rights of the from-square alone cleared
update_castling_from(rights, from, to) ==
    rights_remove(rights, update_mask(from))

\* the two lines "castling = castling.remove(update_mask(from / to))"
update_castling(rights, from, to) ==
    rights_remove(rights_remove(rights, update_mask(from)), update_mask(to))

\* the captured piece left on its square
remove_captured_fast_kept(r, to, cap, them_c) == r

\* "if let Some((cap_piece, _)) = self.piece_at(to) { remove_piece_fast(..) }"
remove_captured_fast(r, to, cap, them_c) ==
    IF cap # {} THEN remove_piece_fast(r, to, PieceOf(cap), them_c) ELSE r

\* make_move_new, the match on the flag (lines 39-96); r is "result", cap is
\* self.piece_at(to)
place_move_new(r, from, to, flag, piece, cap, us_c, them_c) ==
    CASE flag = Quiet -> move_piece_fast(r, from, to, piece, us_c)
      [] flag = DoublePawnPush ->
            [move_piece_fast(r, from, to, piece, us_c)
                EXCEPT !.ep_square = {BehindSquare(us_c, to)}]
      [] flag = Capture ->
            move_piece_fast(remove_captured_fast(r, to, cap, them_c),
                            from, to, piece, us_c)
      [] flag = EnPassant ->
            move_piece_fast(
                remove_piece_fast(r, BehindSquare(us_c, to), Pawn, them_c),
                from, to, Pawn, us_c)
      [] flag = KingCastle \/ flag = QueenCastle ->
            move_piece_fast(move_piece_fast(r, from, to, King, us_c),
                            castle_rook_from(flag, us_c),
                            castle_rook_to(flag, us_c), Rook, us_c)
      [] is_promotion(flag) ->
            add_piece_fast(
                IF is_capture(flag)
                THEN remove_captured_fast(
                         remove_piece_fast(r, from, Pawn, us_c), to, cap, them_c)
                ELSE remove_piece_fast(r, from, Pawn, us_c),
                to, promotion_piece(flag), us_c)
      [] OTHER -> r

\* make_move_new, lines 98-108
finish_move_new(r, from, to, them_c) ==
    update_checkers([r EXCEPT !.castling = update_castling(@, from, to),
                              !.turn = them_c])

make_move_new(b, mv) ==
    finish_move_new(
        place_move_new([b EXCEPT !.ep_square = {}],
                       MoveFrom(mv), MoveTo(mv), MoveFlagOf(mv),
                       piece_at_or_pawn(b, MoveFrom(mv)),
                       piece_at(b, MoveTo(mv)),
                       b.turn, NotColor(b.turn)),
        MoveFrom(mv), MoveTo(mv), NotColor(b.turn))

\* the ep key and the castling key leave the hash, the ep square stays
hash_out_state_ep_kept(b) ==
    [b EXCEPT !.hash = Xor(IF b.ep_square # {}
                           THEN Xor(@, ep_file_key(FileOf(CHOOSE e \in b.ep_square : TRUE)))
                           ELSE @,
                           castling_key(b.castling))]

\* make_move, lines 131-138: the ep key and the castling key leave the hash
hash_out_state(b) ==
    [b EXCEPT !.ep_square = {},
              !.hash = Xor(IF b.ep_square # {}
                           THEN Xor(@, ep_file_key(FileOf(CHOOSE e \in b.ep_square : TRUE)))
                           ELSE @,
                           castling_key(b.castling))]

\* the ep square set without its key
set_ep_square_unkeyed(r, ep) == [r EXCEPT !.ep_square = {ep}]

\* "self.ep_square = Some(ep); self.hash ^= ZOBRIST.ep_file(ep.file())"
set_ep_square(r, ep) ==
    [r EXCEPT !.ep_square = {ep}, !.hash = Xor(@, ep_file_key(FileOf(ep)))]

\* "if let Some((cap_piece, _)) = self.piece_at(to) { .. remove_piece(..) }"
remove_captured(r, to, cap, them_c) ==
    IF cap # {} THEN remove_piece(r, to, PieceOf(cap), them_c) ELSE r

\* make_move, the match on the flag (lines 143-216)
place_move(r, from, to, flag, piece, cap, us_c, them_c) ==
    CASE flag = Quiet -> move_piece(r, from, to, piece, us_c)
      [] flag = DoublePawnPush ->
            set_ep_square(move_piece(r, from, to, piece, us_c),
                          BehindSquare(us_c, to))
      [] flag = Capture ->
            move_piece(remove_captured(r, to, cap, them_c), from, to, piece, us_c)
      [] flag = EnPassant ->
            move_piece(remove_piece(r, BehindSquare(us_c, to), Pawn, them_c),
                       from, to, Pawn, us_c)
      [] flag = KingCastle \/ flag = QueenCastle ->
            move_piece(move_piece(r, from, to, King, us_c),
                       castle_rook_from(flag, us_c),
                       castle_rook_to(flag, us_c), Rook, us_c)
      [] is_promotion(flag) ->
            add_piece(
                IF is_capture(flag)
                THEN remove_captured(remove_piece(r, from, Pawn, us_c),
                                     to, cap, them_c)
                ELSE remove_piece(r, from, Pawn, us_c),
                to, promotion_piece(flag), us_c)
      [] OTHER -> r

\* the value of "captured" after the match
captured_piece(b, mv) ==
    CASE MoveFlagOf(mv) = Capture -> {x[1] : x \in piece_at(b, MoveTo(mv))}
      [] MoveFlagOf(mv) = EnPassant -> {Pawn}
      [] is_promotion(MoveFlagOf(mv)) /\ is_capture(MoveFlagOf(mv)) ->
            {x[1] : x \in piece_at(b, MoveTo(mv))}
      [] OTHER -> {}

\* make_move, lines 218-221
hash_in_castling(r, from, to) ==
    [r EXCEPT !.castling = update_castling(@, from, to),
              !.hash = Xor(@, castling_key(update_castling(r.castling, from, to)))]

\* make_move up to and including the castling-rights update (lines 113-221)
make_move_placed(b, mv) ==
    hash_in_castling(
        place_move(hash_out_state(b),
                   MoveFrom(mv), MoveTo(mv), MoveFlagOf(mv),
                   piece_at_or_pawn(b, MoveFrom(mv)),
                   piece_at(b, MoveTo(mv)),
                   b.turn, NotColor(b.turn)),
        MoveFrom(mv), MoveTo(mv))

\* the condition of line 224
resets_clock(b, mv) ==
    piece_at_or_pawn(b, MoveFrom(mv)) = Pawn \/ captured_piece(b, mv) # {}

\* "halfmove_clock += 1" on a u8 that holds 255
halfmove_overflows(b, mv) == ~resets_clock(b, mv) /\ b.halfmove_clock = 255

\* "fullmove_number += 1" on a u16 that holds 65535
fullmove_overflows(b, mv) == b.turn = Black /\ b.fullmove_number = 65535

\* lines 223-228, with the wrapping result of a build without overflow checks
update_halfmove(r, reset) ==
    IF reset
    THEN [r EXCEPT !.halfmove_clock = 0]
    ELSE [r EXCEPT !.halfmove_clock = (@ + 1) % 256]

\* lines 230-233
update_fullmove(r, us_c) ==
    IF us_c = Black THEN [r EXCEPT !.fullmove_number = (@ + 1) % 65536] ELSE r

\* lines 235-240
switch_side(r, them_c) ==
    update_checkers([r EXCEPT !.turn = them_c, !.hash = Xor(@, side_key)])

\* the board make_move leaves when it returns
make_move_board(b, mv) ==
    switch_side(
        update_fullmove(
            update_halfmove(make_move_placed(b, mv), resets_clock(b, mv)),
            b.turn),
        NotColor(b.turn))

\* the UndoInfo make_move returns
make_move_undo(b, mv) ==
    [castling |-> b.castling,
     ep_square |-> b.ep_square,
     halfmove_clock |-> b.halfmove_clock,
     hash |-> b.hash,
     checkers |-> b.checkers,
     captured |-> captured_piece(b, mv)]

make_move(b, mv) ==
    [board |-> make_move_board(b, mv), undo |-> make_move_undo(b, mv)]

\* lines 223-228 in a build with overflow checks: the panic leaves the clock
halfmove_or_panic(r, reset) ==
    IF reset THEN [r EXCEPT !.halfmove_clock = 0]
    ELSE IF r.halfmove_clock = 255 THEN r
    ELSE [r EXCEPT !.halfmove_clock = @ + 1]

\* the board a build with overflow checks leaves behind when a "+= 1" of
\* make_move panics
make_move_abort(b, mv) ==
    halfmove_or_panic(make_move_placed(b, mv), resets_clock(b, mv))

\* unmake_move, lines 356-361
unmake_piece(t, to, flag) ==
    IF is_promotion(flag) THEN Pawn ELSE piece_at_or_pawn(t, to)

\* the captured piece not put back
restore_captured_lost(r, to, captured, them_c) == r

\* "if let Some(cap_piece) = undo.captured { self.add_piece(to, cap_piece, them) }"
restore_captured(r, to, captured, them_c) ==
    IF captured # {}
    THEN add_piece(r, to, CHOOSE p \in captured : TRUE, them_c)
    ELSE r

\* unmake_move, the match on the flag (lines 363-409); t is the board with
\* the side already switched back
unplace_move(t, from, to, flag, piece, us_c, them_c, captured) ==
    CASE flag = Quiet \/ flag = DoublePawnPush ->
            move_piece(t, to, from, piece, us_c)
      [] flag = Capture ->
            restore_captured(move_piece(t, to, from, piece, us_c),
                             to, captured, them_c)
      [] flag = EnPassant ->
            add_piece(move_piece(t, to, from, Pawn, us_c),
                      BehindSquare(us_c, to), Pawn, them_c)
      [] flag = KingCastle \/ flag = QueenCastle ->
            move_piece(move_piece(t, to, from, King, us_c),
                       castle_rook_to(flag, us_c),
                       castle_rook_from(flag, us_c), Rook, us_c)
      [] is_promotion(flag) ->
            restore_captured(
                add_piece(remove_piece(t, to, promotion_piece(flag), us_c),
                          from, Pawn, us_c),
                to, captured, them_c)
      [] OTHER -> t

\* unmake_move, lines 411-421; "fullmove_number -= 1" wraps like the "+= 1"
restore_state(r, undo, us_c) ==
    [r EXCEPT !.castling = undo.castling,
              !.ep_square = undo.ep_square,
              !.halfmove_clock = undo.halfmove_clock,
              !.hash = undo.hash,
              !.checkers = undo.checkers,
              !.fullmove_number = IF us_c = Black THEN (@ + 65535) % 65536 ELSE @]

unmake_move(b, mv, undo) ==
    restore_state(
        unplace_move([b EXCEPT !.turn = NotColor(b.turn)],
                     MoveFrom(mv), MoveTo(mv), MoveFlagOf(mv),
                     unmake_piece(b, MoveTo(mv), MoveFlagOf(mv)),
                     NotColor(b.turn), b.turn, undo.captured),
        undo, NotColor(b.turn))

(***************************************************************************)
(* FEN parsing (board/fen.rs).  A &str is the sequence of its characters.  *)
(***************************************************************************)
IsSpace(c) == c \in {" ", "\t", "\n", "\r"}

\* str::split_whitespace: the maximal runs of non-whitespace characters, in
\* the order of their first characters
split_whitespace(str) ==
    LET n == Len(str)
        starts == {i \in 1..n : ~IsSpace(str[i]) /\ (i = 1 \/ IsSpace(str[i - 1]))}
        ends == {j \in 1..n : ~IsSpace(str[j]) /\ (j = n \/ IsSpace(str[j + 1]))}
        Nth(set, k) == CHOOSE x \in set : Cardinality({y \in set : y < x}) = k - 1
    IN  [k \in 1..Cardinality(starts) |-> SubSeq(str, Nth(starts, k), Nth(ends, k))]

DigitChars == <<"0", "1", "2", "3", "4", "5", "6", "7", "8", "9">>
IsDigit(c) == \E i \in 1..10 : DigitChars[i] = c
\* (c as u8) - b'0'
DigitValue(c) == (CHOOSE i \in 1..10 : DigitChars[i] = c) - 1

PieceChars == <<"P", "N", "B", "R", "Q", "K", "p", "n", "b", "r", "q", "k">>
\* Piece::from_char: Option<(Piece, Color)>
piece_from_char(c) ==
    {<<(i - 1) % 6, (i - 1) \div 6>> : i \in {j \in 1..12 : PieceChars[j] = c}}

FileChars == <<"a", "b", "c", "d", "e", "f", "g", "h">>
FileCharsUpper == <<"A", "B", "C", "D", "E", "F", "G", "H">>
\* File::from_char / Rank::from_char: Option<index>
file_from_char(c) == {i - 1 : i \in {j \in 1..8 : FileChars[j] = c \/ FileCharsUpper[j] = c}}
rank_from_char(c) == {DigitValue(c) - 1 : x \in {y \in {c} : IsDigit(y) /\ DigitValue(y) \in 1..8}}

\* Square::from_algebraic: Option<Square>
from_algebraic(str) ==
    IF Len(str) # 2 THEN {}
    ELSE {from_file_rank(f, r) : f \in file_from_char(str[1]), r \in rank_from_char(str[2])}

\* CastleRights::from_fen: Option<CastleRights>
RECURSIVE CastleChars(_, _, _)
CastleChars(str, i, rights) ==
    IF i > Len(str) THEN {rights}
    ELSE CASE str[i] = "K" -> CastleChars(str, i + 1, rights_add(rights, WHITE_KINGSIDE))
           [] str[i] = "Q" -> CastleChars(str, i + 1, rights_add(rights, WHITE_QUEENSIDE))
           [] str[i] = "k" -> CastleChars(str, i + 1, rights_add(rights, BLACK_KINGSIDE))
           [] str[i] = "q" -> CastleChars(str, i + 1, rights_add(rights, BLACK_QUEENSIDE))
           [] OTHER -> {}

castle_rights_from_fen(str) ==
    IF str = <<"-">> THEN {NONE} ELSE CastleChars(str, 1, NONE)

\* str::parse::<uN>(): an optional '+', then one or more digits, the value
\* at most max; Option<value>
RECURSIVE ParseDigits(_, _, _, _)
ParseDigits(str, i, acc, max) ==
    IF i > Len(str) THEN {acc}
    ELSE IF ~IsDigit(str[i]) THEN {}
    ELSE LET v == acc * 10 + DigitValue(str[i]) IN
         IF v > max THEN {} ELSE ParseDigits(str, i + 1, v, max)

parse_unsigned(str, max) ==
    LET start == IF Len(str) > 0 /\ str[1] = "+" THEN 2 ELSE 1 IN
    IF start > Len(str) THEN {} ELSE ParseDigits(str, start, 0, max)

\* make_move_fast (lines 248-343): the match is that of make_move_new, then
\* the rights and the side; hash, clocks and checkers are left as they are
make_move_fast_board(b, mv) ==
    LET r == place_move_new([b EXCEPT !.ep_square = {}],
                            MoveFrom(mv), MoveTo(mv), MoveFlagOf(mv),
                            piece_at_or_pawn(b, MoveFrom(mv)),
                            piece_at(b, MoveTo(mv)),
                            b.turn, NotColor(b.turn))
    IN  [r EXCEPT !.castling = update_castling(@, MoveFrom(mv), MoveTo(mv)),
                  !.turn = NotColor(b.turn)]

\* "UndoInfo { captured, ..undo }"
make_move_fast_undo(b, mv) ==
    [castling |-> b.castling,
     ep_square |-> b.ep_square,
     halfmove_clock |-> b.halfmove_clock,
     hash |-> b.hash,
     checkers |-> b.checkers,
     captured |-> captured_piece(b, mv)]

make_move_fast(b, mv) ==
    [board |-> make_move_fast_board(b, mv), undo |-> make_move_fast_undo(b, mv)]

\* "if let Some(cap_piece) = undo.captured { self.add_piece_fast(to, cap_piece, them) }"
restore_captured_fast(r, to, captured, them_c) ==
    IF captured # {}
    THEN add_piece_fast(r, to, CHOOSE p \in captured : TRUE, them_c)
    ELSE r

\* unmake_move_fast, the match on the flag (lines 443-489); t is the board
\* with the side already switched back
unplace_move_fast(t, from, to, flag, piece, us_c, them_c, captured) ==
    CASE flag = Quiet \/ flag = DoublePawnPush ->
            move_piece_fast(t, to, from, piece, us_c)
      [] flag = Capture ->
            restore_captured_fast(move_piece_fast(t, to, from, piece, us_c),
                                  to, captured, them_c)
      [] flag = EnPassant ->
            add_piece_fast(move_piece_fast(t, to, from, Pawn, us_c),
                           BehindSquare(us_c, to), Pawn, them_c)
      [] flag = KingCastle \/ flag = QueenCastle ->
            move_piece_fast(move_piece_fast(t, to, from, King, us_c),
                            castle_rook_to(flag, us_c),
                            castle_rook_from(flag, us_c), Rook, us_c)
      [] is_promotion(flag) ->
            restore_captured_fast(
                add_piece_fast(remove_piece_fast(t, to, promotion_piece(flag), us_c),
                               from, Pawn, us_c),
                to, captured, them_c)
      [] OTHER -> t

\* a restore that leaves the en passant square of the position after
restore_state_fast_ep_left(r, undo) ==
    [r EXCEPT !.castling = undo.castling,
              !.checkers = undo.checkers]

\* unmake_move_fast, lines 491-494
restore_state_fast(r, undo) ==
    [r EXCEPT !.castling = undo.castling,
              !.ep_square = undo.ep_square,
              !.checkers = undo.checkers]

unmake_move_fast(b, mv, undo) ==
    restore_state_fast(
        unplace_move_fast([b EXCEPT !.turn = NotColor(b.turn)],
                          MoveFrom(mv), MoveTo(mv), MoveFlagOf(mv),
                          unmake_piece(b, MoveTo(mv), MoveFlagOf(mv)),
                          NotColor(b.turn), b.turn, undo.captured),
        undo)

unwrap_or(opt, default) == IF opt = {} THEN default ELSE CHOOSE x \in opt : TRUE

Err(msg) == [ok |-> FALSE, err |-> msg, board |-> empty_board, wrapped |-> FALSE]

\* "return Err(msg)" inside the loop over the placement field
PlaceErr(st, msg) == [st EXCEPT !.ok = FALSE, !.err = msg, !.board = empty_board]

\* one turn of the loop over the characters of the piece-placement field, on
\* the loop's variables st; file is a u8, and wrapped records that
\* "file += digit" went past 255
PlaceChar(st, c) ==
    IF c = "/"
    THEN (IF st.rank = 0 THEN PlaceErr(st, "Too many ranks in FEN")
          ELSE [st EXCEPT !.rank = @ - 1, !.file = 0])
    ELSE IF IsDigit(c) /\ DigitValue(c) \in 1..8
    THEN [st EXCEPT !.file = (@ + DigitValue(c)) % 256,
                    !.wrapped = @ \/ st.file + DigitValue(c) > 255]
    ELSE IF st.file >= 8 THEN PlaceErr(st, "Too many pieces in rank")
    ELSE LET pc == piece_from_char(c) IN
         IF pc = {} THEN PlaceErr(st, "Invalid piece character")
         ELSE LET x == CHOOSE y \in pc : TRUE IN
              [st EXCEPT !.file = @ + 1,
                         !.board = add_piece(@, from_file_rank(st.file, st.rank),
                                             x[1], x[2])]

\* the loop over the characters lo..hi of the piece-placement field, in
\* order, stopping at the first Err (the characters are taken by halves, which
\* keeps the evaluation shallow)
RECURSIVE PlacePieces(_, _, _, _)
PlacePieces(str, lo, hi, st) ==
    IF lo > hi THEN st
    ELSE IF lo = hi THEN PlaceChar(st, str[lo])
    ELSE LET mid == (lo + hi) \div 2
             left == PlacePieces(str, lo, mid, st)
         IN  IF ~left.ok THEN left ELSE PlacePieces(str, mid + 1, hi, left)

\* from_fen up to its last statement: the fields are parsed into the board,
\* and update_checkers has not been called yet
parse_fields(text) ==
    LET parts == split_whitespace(text) IN
    IF Len(parts) < 4 THEN Err("FEN must have at least 4 parts")
    ELSE
    LET st == PlacePieces(parts[1], 1, Len(parts[1]),
                          [ok |-> TRUE, err |-> "", board |-> empty_board,
                           wrapped |-> FALSE, rank |-> 7, file |-> 0])
        placed == [ok |-> st.ok, err |-> st.err, board |-> st.board,
                   wrapped |-> st.wrapped]
    IN
    IF ~placed.ok THEN placed
    ELSE IF parts[2] # <<"w">> /\ parts[2] # <<"b">>
    THEN [Err("Invalid side to move") EXCEPT !.wrapped = placed.wrapped]
    ELSE
    LET turn == IF parts[2] = <<"w">> THEN White ELSE Black
        b1 == [placed.board EXCEPT !.turn = turn,
                                   !.hash = IF turn = Black THEN Xor(@, side_key) ELSE @]
        rights == castle_rights_from_fen(parts[3])
    IN
    IF rights = {}
    THEN [Err("Invalid castling rights") EXCEPT !.wrapped = placed.wrapped]
    ELSE
    LET r == CHOOSE x \in rights : TRUE
        b2 == [b1 EXCEPT !.castling = r, !.hash = Xor(@, castling_key(r))]
        ep == IF parts[4] = <<"-">> THEN {} ELSE from_algebraic(parts[4])
    IN
    IF parts[4] # <<"-">> /\ ep = {}
    THEN [Err("Invalid en passant square") EXCEPT !.wrapped = placed.wrapped]
    ELSE
    LET b3 == [b2 EXCEPT !.ep_square = ep,
                         !.hash = IF ep = {} THEN @
                                  ELSE Xor(@, ep_file_key(FileOf(CHOOSE e \in ep : TRUE)))]
        b4 == IF Len(parts) > 4
              THEN [b3 EXCEPT !.halfmove_clock = unwrap_or(parse_unsigned(parts[5], 255), 0)]
              ELSE b3
        b5 == IF Len(parts) > 5
              THEN [b4 EXCEPT !.fullmove_number =
                                  unwrap_or(parse_unsigned(parts[6], 65535), 1)]
              ELSE b4
    IN  [ok |-> TRUE, err |-> "", board |-> b5, wrapped |-> placed.wrapped]

\* the number of kings of the side to move on the board the fields describe
KingsToMove(r) == Cardinality(piece_color_bb(r.board, King, r.board.turn))

\* from_fen cannot return in any build: its update_checkers() asks for the
\* king of the side to move, lsb_unchecked of the empty set is square 64, and
\* the attack tables have 64 entries
from_fen_aborts(r) == r.ok /\ KingsToMove(r) = 0

\* from_fen cannot return in a build with debug assertions and overflow
\* checks: "file += digit" past 255, or king_square's exactly_one()
from_fen_aborts_checked(r) == r.wrapped \/ (r.ok /\ KingsToMove(r) # 1)

\* Board::from_fen where it returns: Result<Board, &str>
finish_fen(r) == IF r.ok THEN [r EXCEPT !.board = update_checkers(@)] ELSE r

from_fen(text) == finish_fen(parse_fields(text))

\* Piece::to_char
piece_to_char(piece, color) == PieceChars[color * 6 + piece + 1]

\* to_algebraic with the rank written from zero
to_algebraic_zero_based(sq) == <<FileChars[FileOf(sq) + 1], DigitChars[RankOf(sq) + 1]>>

\* Square::to_algebraic: the file letter, then the rank digit
to_algebraic(sq) == <<FileChars[FileOf(sq) + 1], DigitChars[RankOf(sq) + 2]>>

\* CastleRights::to_fen: the table STRINGS, indexed by the four bits
CastleStrings ==
    << <<"-">>, <<"K">>, <<"Q">>, <<"K", "Q">>,
       <<"k">>, <<"K", "k">>, <<"Q", "k">>, <<"K", "Q", "k">>,
       <<"q">>, <<"K", "q">>, <<"Q", "q">>, <<"K", "Q", "q">>,
       <<"k", "q">>, <<"K", "k", "q">>, <<"Q", "k", "q">>, <<"K", "Q", "k", "q">> >>

rights_to_fen(rights) == CastleStrings[rights + 1]

\* uN::to_string: the decimal digits, without sign or leading zeros
RECURSIVE to_string(_)
to_string(n) ==
    IF n < 10 THEN <<DigitChars[n + 1]>>
    ELSE Append(to_string(n \div 10), DigitChars[(n % 10) + 1])

\* "if empty_count > 0 { fen.push_str(&empty_count.to_string()) }"
EmitEmpty(empty_count) ==
    IF empty_count > 0 THEN <<DigitChars[empty_count + 1]>> ELSE <<>>

\* the loop of to_fen over the files of one rank, from file on: what it
\* pushes to the string
RECURSIVE EmitRank(_, _, _, _)
EmitRank(b, rank, file, empty_count) ==
    IF file = 8 THEN EmitEmpty(empty_count)
    ELSE LET pa == piece_at(b, from_file_rank(file, rank)) IN
         IF pa = {} THEN EmitRank(b, rank, file + 1, empty_count + 1)
         ELSE LET x == CHOOSE y \in pa : TRUE IN
              EmitEmpty(empty_count) \o <<piece_to_char(x[1], x[2])>>
                  \o EmitRank(b, rank, file + 1, 0)

\* the loop of to_fen over the ranks, the eighth first, from rank on
RECURSIVE EmitRanks(_, _)
EmitRanks(b, rank) ==
    IF rank = 0 THEN EmitRank(b, 0, 0, 0)
    ELSE EmitRank(b, rank, 0, 0) \o <<"/">> \o EmitRanks(b, rank - 1)

\* Board::to_fen
to_fen(b) ==
    EmitRanks(b, 7)
        \o <<" ", IF b.turn = White THEN "w" ELSE "b", " ">>
        \o rights_to_fen(b.castling)
        \o <<" ">>
        \o (IF b.ep_square = {} THEN <<"-">>
            ELSE to_algebraic(CHOOSE e \in b.ep_square : TRUE))
        \o <<" ">> \o to_string(b.halfmove_clock)
        \o <<" ">> \o to_string(b.fullmove_number)

(***************************************************************************)
(* The program as a state machine: a caller holds one Board, parsed from a *)
(* FEN string, and the UndoInfo of the moves it made in place; it applies  *)
(* moves taken from generate_moves with make_move / make_move_new and      *)
(* takes them back with unmake_move.                                       *)
(***************************************************************************)
\* the number of plies the caller plays out from the parsed position
MaxPly == 2

\* castling on the king's side, both colors
\*   4k2r/4p2p/4P2P/8/8/4p2p/4P2P/4K2R w Kk - 0 1
FenKingside ==
    <<"4", "k", "2", "r", "/", "4", "p", "2", "p", "/", "4", "P", "2", "P",
      "/", "8", "/", "8", "/", "4", "p", "2", "p", "/", "4", "P", "2", "P",
      "/", "4", "K", "2", "R", " ", "w", " ", "K", "k", " ", "-", " ", "0",
      " ", "1">>

\* castling on the queen's side, both colors
\*   r3k3/p3p3/P3P3/8/8/p3p3/P3P3/R3K3 w Qq - 0 1
FenQueenside ==
    <<"r", "3", "k", "3", "/", "p", "3", "p", "3", "/", "P", "3", "P", "3",
      "/", "8", "/", "8", "/", "p", "3", "p", "3", "/", "P", "3", "P", "3",
      "/", "R", "3", "K", "3", " ", "w", " ", "Q", "q", " ", "-", " ", "0",
      " ", "1">>

\* a knight that can take the rook of a castling right
\*   4k2r/7p/6N1/8/8/p7/P7/K7 w k - 3 20
FenRookTaken ==
    <<"4", "k", "2", "r", "/", "7", "p", "/", "6", "N", "1", "/", "8", "/",
      "8", "/", "p", "7", "/", "P", "7", "/", "K", "7", " ", "w", " ", "k",
      " ", "-", " ", "3", " ", "2", "0">>

\* double pushes next to an enemy pawn
\*   7k/8/8/8/1p6/8/P1P5/7K w - - 0 1
FenDoublePush ==
    <<"7", "k", "/", "8", "/", "8", "/", "8", "/", "1", "p", "6", "/", "8",
      "/", "P", "1", "P", "5", "/", "7", "K", " ", "w", " ", "-", " ", "-",
      " ", "0", " ", "1">>

\* an en passant capture on offer
\*   7k/8/8/8/1pP5/8/8/7K b - c3 0 1
FenEnPassant ==
    <<"7", "k", "/", "8", "/", "8", "/", "8", "/", "1", "p", "P", "5", "/",
      "8", "/", "8", "/", "7", "K", " ", "b", " ", "-", " ", "c", "3", " ",
      "0", " ", "1">>

\* an en passant capture that would uncover the rook
\*   8/8/8/8/k1pP3R/8/8/7K b - d3 0 1
FenEpRank ==
    <<"8", "/", "8", "/", "8", "/", "8", "/", "k", "1", "p", "P", "3", "R",
      "/", "8", "/", "8", "/", "7", "K", " ", "b", " ", "-", " ", "d", "3",
      " ", "0", " ", "1">>

\* a check by the pawn that just made a double push
\*   8/8/8/2k5/3Pp3/8/8/4K3 b - d3 0 1
FenEpEvasion ==
    <<"8", "/", "8", "/", "8", "/", "2", "k", "5", "/", "3", "P", "p", "3",
      "/", "8", "/", "8", "/", "4", "K", "3", " ", "b", " ", "-", " ", "d",
      "3", " ", "0", " ", "1">>

\* a double push that uncovers a check by the bishop, with a pawn beside it
\*   8/8/7k/8/4p3/8/3P4/2B4K w - - 0 1
FenEpDiscovered ==
    <<"8", "/", "8", "/", "7", "k", "/", "8", "/", "4", "p", "3", "/", "8",
      "/", "3", "P", "4", "/", "2", "B", "4", "K", " ", "w", " ", "-", " ",
      "-", " ", "0", " ", "1">>

\* a pawn that promotes by a push
\*   7k/4P3/8/8/8/8/8/K7 w - - 0 1
FenPromotion ==
    <<"7", "k", "/", "4", "P", "3", "/", "8", "/", "8", "/", "8", "/", "8",
      "/", "8", "/", "K", "7", " ", "w", " ", "-", " ", "-", " ", "0", " ",
      "1">>

\* a Black pawn that promotes by a capture
\*   7k/8/8/8/8/8/4p3/3NK3 b - - 0 1
FenPromotionBlack ==
    <<"7", "k", "/", "8", "/", "8", "/", "8", "/", "8", "/", "8", "/", "4",
      "p", "3", "/", "3", "N", "K", "3", " ", "b", " ", "-", " ", "-", " ",
      "0", " ", "1">>

\* a rook pinned on the file and a pawn pinned on the diagonal
\*   7k/8/8/8/pp1p4/rpb5/RP6/K7 w - - 0 1
FenPins ==
    <<"7", "k", "/", "8", "/", "8", "/", "8", "/", "p", "p", "1", "p", "4",
      "/", "r", "p", "b", "5", "/", "R", "P", "6", "/", "K", "7", " ", "w",
      " ", "-", " ", "-", " ", "0", " ", "1">>

\* a check by a rook that can be blocked
\*   k3r3/8/8/8/8/8/3B4/R3K3 w Q - 0 1
FenCheck ==
    <<"k", "3", "r", "3", "/", "8", "/", "8", "/", "8", "/", "8", "/", "8",
      "/", "3", "B", "4", "/", "R", "3", "K", "3", " ", "w", " ", "Q", " ",
      "-", " ", "0", " ", "1">>

\* a check by a knight that can be taken
\*   k7/8/8/8/8/5n2/4P3/4K3 w - - 0 1
FenKnightCheck ==
    <<"k", "7", "/", "8", "/", "8", "/", "8", "/", "8", "/", "5", "n", "2",
      "/", "4", "P", "3", "/", "4", "K", "3", " ", "w", " ", "-", " ", "-",
      " ", "0", " ", "1">>

\* a double check by rook and knight, with a castling right and a pawn
\* that could take the rook
\*   k7/8/8/4p3/3prp2/3P4/6nP/4K2R w K - 0 1
FenDoubleCheck ==
    <<"k", "7", "/", "8", "/", "8", "/", "4", "p", "3", "/", "3", "p", "r",
      "p", "2", "/", "3", "P", "4", "/", "6", "n", "P", "/", "4", "K", "2",
      "R", " ", "w", " ", "K", " ", "-", " ", "0", " ", "1">>

\* the halfmove clock at the maximum of its type
\*   7k/8/8/8/8/8/8/K7 w - - 255 200
FenHalfmoveMax ==
    <<"7", "k", "/", "8", "/", "8", "/", "8", "/", "8", "/", "8", "/", "8",
      "/", "K", "7", " ", "w", " ", "-", " ", "-", " ", "2", "5", "5", " ",
      "2", "0", "0">>

\* the fullmove number at the maximum of its type
\*   7k/8/8/8/8/8/8/K7 b - - 0 65535
FenFullmoveMax ==
    <<"7", "k", "/", "8", "/", "8", "/", "8", "/", "8", "/", "8", "/", "8",
      "/", "K", "7", " ", "b", " ", "-", " ", "-", " ", "0", " ", "6", "5",
      "5", "3", "5">>

\* a knight and a pawn together between the king and a bishop: when the pawn
\* has advanced, the knight is pinned
\*   7k/8/8/6p1/7b/6P1/5N2/4K3 w - - 0 1
FenPinnedKnight ==
    <<"7", "k", "/", "8", "/", "8", "/", "6", "p", "1", "/", "7", "b", "/",
      "6", "P", "1", "/", "5", "N", "2", "/", "4", "K", "3", " ", "w", " ",
      "-", " ", "-", " ", "0", " ", "1">>

\* the positions the caller starts from
InitFens ==
    {FenKingside, FenQueenside, FenRookTaken, FenDoublePush,
     FenEnPassant, FenEpRank, FenEpEvasion, FenEpDiscovered, FenPromotion,
     FenPromotionBlack, FenPins, FenCheck, FenKnightCheck,
     FenDoubleCheck, FenHalfmoveMax, FenFullmoveMax, FenPinnedKnight}

VARIABLES
    board,      \* the caller's Board
    stack,      \* the (move, UndoInfo) pairs of the moves made in place
    ply,        \* the number of moves between the parsed position and board;
                \* after a perft, the depth it was asked for
    lastOp,     \* the operation that produced this state
    lastMove,   \* the move the last make was called with, else MoveNull
    lastFlag,   \* the flag of the move the last operation was called with
    before,     \* the position the last make started from; after an
                \* unmake_move, the position its move had been made on
    fen,        \* the text last parsed or written
    moves,      \* the MoveList of the caller's last generate_moves() of its own
    count,      \* the caller's last generate_moves_count() of board
    nodes,      \* the caller's last perft result
    lookup      \* the static table being filled or read: its square, the
                \* entries written so far, the last query and its answer

vars == <<board, stack, ply, lastOp, lastMove, lastFlag, before,
          fen, moves, count, nodes, lookup>>

\* no static table has been touched
NoLookup == [table |-> "none"]

\* the moves of a MoveList as a set
MoveSet(ml) == {ml[i] : i \in 1..Len(ml)}

Init ==
    /\ fen \in InitFens
    /\ from_fen(fen).ok
    /\ board = from_fen(fen).board
    /\ stack = <<>>
    /\ ply = 0
    /\ lastOp = "from_fen"
    /\ lastMove = MoveNull
    /\ lastFlag = Quiet
    /\ before = board
    /\ moves = <<>>
    /\ count = 0
    /\ nodes = 0
    /\ lookup = NoLookup

Running == lastOp # "panic"

\* the checkers field is that of the position: make_move_fast alone leaves
\* it stale
CheckersValid == lastOp # "make_move_fast"

\* board.make_move(mv), returning normally
MakeMove ==
    /\ Running
    /\ CheckersValid
    /\ ply < MaxPly
    /\ \E mv \in MoveSet(generate_moves(board)) :
        /\ board' = make_move_board(board, mv)
        /\ UNCHANGED <<lookup, fen, moves, count, nodes>>
        /\ stack' = Append(stack, [mv |-> mv, undo |-> make_move_undo(board, mv),
                                   before |-> board])
        /\ ply' = ply + 1
        /\ lastOp' = "make_move"
        /\ lastMove' = mv
        /\ lastFlag' = MoveFlagOf(mv)
        /\ before' = board

\* board.make_move(mv) in a build with overflow checks, when a clock is at
\* its maximum: the "+= 1" panics and the call never returns
MakeMovePanic ==
    /\ Running
    /\ CheckersValid
    /\ ply < MaxPly
    /\ \E mv \in MoveSet(generate_moves(board)) :
        /\ halfmove_overflows(board, mv) \/ fullmove_overflows(board, mv)
        /\ board' = make_move_abort(board, mv)
        /\ UNCHANGED <<lookup, fen, moves, count, nodes>>
        /\ lastOp' = "panic"
        /\ lastMove' = mv
        /\ lastFlag' = MoveFlagOf(mv)
        /\ before' = board
        /\ UNCHANGED <<stack, ply>>

\* board.unmake_move(mv, undo) with the pair of the last move made in place
UnmakeMove ==
    /\ Running
    /\ stack # <<>>
    /\ board' = unmake_move(board, stack[Len(stack)].mv, stack[Len(stack)].undo)
    /\ UNCHANGED <<lookup, fen, moves, count, nodes>>
    /\ stack' = SubSeq(stack, 1, Len(stack) - 1)
    /\ ply' = ply - 1
    /\ lastOp' = "unmake_move"
    /\ lastMove' = MoveNull
    /\ lastFlag' = MoveFlagOf(stack[Len(stack)].mv)
    /\ before' = stack[Len(stack)].before

\* board = board.make_move_new(mv): the caller goes on with the copy, which
\* has no UndoInfo of its own
MakeMoveNew ==
    /\ Running
    /\ ply < MaxPly
    /\ \E mv \in MoveSet(generate_moves(board)) :
        /\ board' = make_move_new(board, mv)
        /\ UNCHANGED <<lookup, fen, moves, count, nodes>>
        /\ stack' = <<>>
        /\ ply' = ply + 1
        /\ lastOp' = "make_move_new"
        /\ lastMove' = mv
        /\ lastFlag' = MoveFlagOf(mv)
        /\ before' = board

Next == MakeMove \/ MakeMovePanic \/ UnmakeMove \/ MakeMoveNew

Spec == Init /\ [][Next]_vars

\* the in-place discipline alone: make_move and unmake_move
NextInPlace == MakeMove \/ MakeMovePanic \/ UnmakeMove

SpecInPlace == Init /\ [][NextInPlace]_vars

\* undo = board.make_move_fast(mv)
MakeMoveFast ==
    /\ Running
    /\ CheckersValid
    /\ ply < MaxPly
    /\ \E mv \in MoveSet(generate_moves(board)) :
        /\ board' = make_move_fast_board(board, mv)
        /\ UNCHANGED <<lookup, fen, moves, count, nodes>>
        /\ stack' = Append(stack, [mv |-> mv, undo |-> make_move_fast_undo(board, mv),
                                   before |-> board])
        /\ ply' = ply + 1
        /\ lastOp' = "make_move_fast"
        /\ lastMove' = mv
        /\ lastFlag' = MoveFlagOf(mv)
        /\ before' = board

\* board.unmake_move_fast(mv, undo) with the pair of the make_move_fast just
\* made
UnmakeMoveFast ==
    /\ lastOp = "make_move_fast"
    /\ board' = unmake_move_fast(board, stack[Len(stack)].mv, stack[Len(stack)].undo)
    /\ UNCHANGED <<lookup, fen, moves, count, nodes>>
    /\ stack' = SubSeq(stack, 1, Len(stack) - 1)
    /\ ply' = ply - 1
    /\ lastOp' = "unmake_move_fast"
    /\ lastMove' = stack[Len(stack)].mv
    /\ lastFlag' = MoveFlagOf(stack[Len(stack)].mv)
    /\ before' = stack[Len(stack)].before

\* the fast in-place pair on the positions make_move reaches
NextFast == MakeMove \/ MakeMovePanic \/ MakeMoveFast \/ UnmakeMoveFast

SpecFast == Init /\ [][NextFast]_vars

(***************************************************************************)
(* Perft (testing/perft.rs)                                                *)
(***************************************************************************)
\* perft with the recursion on the board itself in place of the copy
RECURSIVE perft_same_board(_, _)
perft_same_board(b, depth) ==
    IF depth = 0 THEN 1
    ELSE IF depth = 1 THEN generate_moves_count(b)
    ELSE Len(generate_moves(b)) * perft_same_board(b, depth - 1)

RECURSIVE perft(_, _)
RECURSIVE perft_loop(_, _, _, _, _)

\* the loop "for mv in &moves": nodes += perft(&board.make_move_new(mv), depth - 1),
\* over the moves lo..hi: what it adds to nodes (the moves are taken by
\* halves, which keeps the evaluation shallow)
perft_loop(b, ml, lo, hi, depth) ==
    IF lo > hi THEN 0
    ELSE IF lo = hi THEN perft(make_move_new(b, ml[lo]), depth - 1)
    ELSE perft_loop(b, ml, lo, (lo + hi) \div 2, depth)
             + perft_loop(b, ml, (lo + hi) \div 2 + 1, hi, depth)

perft(b, depth) ==
    IF depth = 0 THEN 1
    ELSE IF depth = 1 THEN generate_moves_count(b)
    ELSE LET ml == generate_moves(b) IN perft_loop(b, ml, 1, Len(ml), depth)

(***************************************************************************)
(* A second caller: it holds a text, parses it with from_fen, and asks the *)
(* parsed Board for its FEN, its moves, its move count and its perft.      *)
(***************************************************************************)
\* the two kings on their home squares
\*   4k3/8/8/8/8/8/8/4K3
PlaceKings ==
    <<"4", "k", "3", "/", "8", "/", "8", "/", "8", "/", "8", "/", "8", "/",
      "8", "/", "4", "K", "3">>

\* the starting placement
\*   rnbqkbnr/pppppppp/8/8/8/8/PPPPPPPP/RNBQKBNR
PlaceStart ==
    <<"r", "n", "b", "q", "k", "b", "n", "r", "/", "p", "p", "p", "p", "p",
      "p", "p", "p", "/", "8", "/", "8", "/", "8", "/", "8", "/", "P", "P",
      "P", "P", "P", "P", "P", "P", "/", "R", "N", "B", "Q", "K", "B", "N",
      "R">>

\* kings and rooks at home
\*   r3k2r/8/8/8/8/8/8/R3K2R
PlaceCastle ==
    <<"r", "3", "k", "2", "r", "/", "8", "/", "8", "/", "8", "/", "8", "/",
      "8", "/", "8", "/", "R", "3", "K", "2", "R">>

\* a first rank of nine files, the ninth in a digit run
\*   4k3/8/8/8/8/8/8/4K4
PlaceNineByDigit ==
    <<"4", "k", "3", "/", "8", "/", "8", "/", "8", "/", "8", "/", "8", "/",
      "8", "/", "4", "K", "4">>

\* a second rank of sixteen files, all in digit runs
\*   4k3/8/8/8/8/8/88/4K3
PlaceSixteenByDigits ==
    <<"4", "k", "3", "/", "8", "/", "8", "/", "8", "/", "8", "/", "8", "/",
      "8", "8", "/", "4", "K", "3">>

\* a first rank of nine files, the ninth a piece
\*   4k3/8/8/8/8/8/8/4K3P
PlaceNineByPiece ==
    <<"4", "k", "3", "/", "8", "/", "8", "/", "8", "/", "8", "/", "8", "/",
      "8", "/", "4", "K", "3", "P">>

\* a first rank of nine pieces
\*   4k3/8/8/8/8/8/8/KPPPPPPPP
PlaceNinePieces ==
    <<"4", "k", "3", "/", "8", "/", "8", "/", "8", "/", "8", "/", "8", "/",
      "8", "/", "K", "P", "P", "P", "P", "P", "P", "P", "P">>

\* nine ranks
\*   4k3/8/8/8/8/8/8/4K3/8
PlaceNineRanks ==
    <<"4", "k", "3", "/", "8", "/", "8", "/", "8", "/", "8", "/", "8", "/",
      "8", "/", "4", "K", "3", "/", "8">>

\* seven ranks: the white pieces stand on the second rank and White has no king
\*   rnbqkbnr/pppppppp/8/8/8/8/PPPPPPPP
PlaceMissingRank ==
    <<"r", "n", "b", "q", "k", "b", "n", "r", "/", "p", "p", "p", "p", "p",
      "p", "p", "p", "/", "8", "/", "8", "/", "8", "/", "8", "/", "P", "P",
      "P", "P", "P", "P", "P", "P">>

\* no black king
\*   8/8/8/8/8/8/8/K7
PlaceNoBlackKing ==
    <<"8", "/", "8", "/", "8", "/", "8", "/", "8", "/", "8", "/", "8", "/",
      "K", "7">>

\* two white kings
\*   4k3/8/8/8/8/8/8/K3K3
PlaceTwoWhiteKings ==
    <<"4", "k", "3", "/", "8", "/", "8", "/", "8", "/", "8", "/", "8", "/",
      "8", "/", "K", "3", "K", "3">>

\* a character that is no piece
\*   4k3/8/8/8/8/8/8/4X3
PlaceBadPiece ==
    <<"4", "k", "3", "/", "8", "/", "8", "/", "8", "/", "8", "/", "8", "/",
      "8", "/", "4", "X", "3">>

\* the digit 0, which is no digit run
\*   4k3/8/8/8/8/8/8/4K30
PlaceZero ==
    <<"4", "k", "3", "/", "8", "/", "8", "/", "8", "/", "8", "/", "8", "/",
      "8", "/", "4", "K", "3", "0">>

\* a first rank of 256 files: the u8 file counter passes 255
\*   4k3/8/8/8/8/8/8/4K38888888888888888888888888888888
PlaceFileWraps ==
    <<"4", "k", "3", "/", "8", "/", "8", "/", "8", "/", "8", "/", "8", "/",
      "8", "/", "4", "K", "3", "8", "8", "8", "8", "8", "8", "8", "8", "8",
      "8", "8", "8", "8", "8", "8", "8", "8", "8", "8", "8", "8", "8", "8",
      "8", "8", "8", "8", "8", "8", "8", "8">>

Placements ==
    {PlaceKings, PlaceStart, PlaceCastle, PlaceNineByDigit,
     PlaceSixteenByDigits, PlaceNineByPiece, PlaceNinePieces, PlaceNineRanks,
     PlaceMissingRank, PlaceNoBlackKing, PlaceTwoWhiteKings, PlaceBadPiece,
     PlaceZero, PlaceFileWraps}

\* the side-to-move fields tried
Sides == {<<"w">>, <<"b">>, <<"x">>, <<"W">>}

\* the castling fields tried: none, all, a foreign character, a repeated
\* character, and all in another order
Castlings ==
    {<<"-">>, <<"K", "Q", "k", "q">>, <<"K", "x">>, <<"K", "K">>,
     <<"q", "k", "Q", "K">>}

\* the en-passant fields tried
EpFields == {<<"-">>, <<"e", "3">>, <<"e", "9">>, <<"e", "3", "3">>, <<"i", "3">>}

\* what follows the fourth field: nothing, the two clocks, clocks at and
\* beyond the width of their types, clocks that are no numbers
ClockFields ==
    {<<>>, <<" ", "0", " ", "1">>,
     <<" ", "2", "5", "5", " ", "6", "5", "5", "3", "5">>,
     <<" ", "2", "5", "6", " ", "6", "5", "5", "3", "6">>,
     <<" ", "x", " ", "y">>}

\* Board::startpos
\*   rnbqkbnr/pppppppp/8/8/8/8/PPPPPPPP/RNBQKBNR w KQkq - 0 1
FenStartpos ==
    <<"r", "n", "b", "q", "k", "b", "n", "r", "/", "p", "p", "p", "p", "p",
      "p", "p", "p", "/", "8", "/", "8", "/", "8", "/", "8", "/", "P", "P",
      "P", "P", "P", "P", "P", "P", "/", "R", "N", "B", "Q", "K", "B", "N",
      "R", " ", "w", " ", "K", "Q", "k", "q", " ", "-", " ", "0", " ", "1">>

\* a single word
\*   invalid
FenWord ==
    <<"i", "n", "v", "a", "l", "i", "d">>

\* three fields
\*   4k3/8/8/8/8/8/8/4K3 w -
FenThreeFields ==
    <<"4", "k", "3", "/", "8", "/", "8", "/", "8", "/", "8", "/", "8", "/",
      "8", "/", "4", "K", "3", " ", "w", " ", "-">>

\* six fields with more whitespace than one space between them
\*    4k3/8/8/8/8/8/8/4K3  w	- -  0 1 
FenSpaced ==
    <<" ", "4", "k", "3", "/", "8", "/", "8", "/", "8", "/", "8", "/", "8",
      "/", "8", "/", "4", "K", "3", " ", " ", "w", "\t", "-", " ", "-", " ",
      " ", "0", " ", "1", " ">>

\* one king of each color and 26 white queens on the rim: 279 moves
\*   QQQQQQQk/Q6Q/Q6Q/Q6Q/Q6Q/Q6Q/Q6Q/KQQQQQQQ w - - 0 1
FenQueenRing ==
    <<"Q", "Q", "Q", "Q", "Q", "Q", "Q", "k", "/", "Q", "6", "Q", "/", "Q",
      "6", "Q", "/", "Q", "6", "Q", "/", "Q", "6", "Q", "/", "Q", "6", "Q",
      "/", "Q", "6", "Q", "/", "K", "Q", "Q", "Q", "Q", "Q", "Q", "Q", " ",
      "w", " ", "-", " ", "-", " ", "0", " ", "1">>

\* the texts the caller starts from
FenInputs ==
    {pl \o <<" ">> \o sd \o <<" ">> \o cr \o <<" ">> \o ep \o ck :
        pl \in Placements, sd \in Sides, cr \in Castlings, ep \in EpFields,
        ck \in ClockFields}
        \cup InitFens
        \cup {FenStartpos, FenQueenRing, FenWord, FenThreeFields, FenSpaced, <<>>}

InitParse ==
    /\ fen \in FenInputs
    /\ board = empty_board
    /\ stack = <<>>
    /\ ply = 0
    /\ lastOp = "input"
    /\ lastMove = MoveNull
    /\ lastFlag = Quiet
    /\ before = empty_board
    /\ moves = <<>>
    /\ count = 0
    /\ nodes = 0
    /\ lookup = NoLookup

\* what a returning from_fen leaves the caller with, r being its fields
ParseFenDone(r) ==
    /\ ~from_fen_aborts(r)
    /\ board' = IF r.ok THEN finish_fen(r).board ELSE board
    /\ lastOp' = IF r.ok THEN "from_fen" ELSE "from_fen_err"
    /\ before' = board
    /\ UNCHANGED <<lookup, fen, stack, ply, lastMove, lastFlag, moves, count, nodes>>

\* board = Board::from_fen(fen), returning Ok or Err
ParseFen ==
    /\ lastOp \in {"input", "to_fen"}
    /\ ParseFenDone(parse_fields(fen))

\* Board::from_fen(fen) panics: in every build when the side to move has no
\* king, in a checked build also when it has several or the file counter
\* overflowed
ParseFenPanicked(r) ==
    /\ from_fen_aborts(r) \/ from_fen_aborts_checked(r)
    /\ lastOp' = "from_fen_panic"
    /\ before' = board
    /\ UNCHANGED <<lookup, fen, board, stack, ply, lastMove, lastFlag, moves, count, nodes>>

ParseFenPanic ==
    /\ lastOp \in {"input", "to_fen"}
    /\ ParseFenPanicked(parse_fields(fen))

\* fen = board.to_fen()
EmitFen ==
    /\ lastOp = "from_fen"
    /\ fen' = to_fen(board)
    /\ lastOp' = "to_fen"
    /\ before' = board
    /\ UNCHANGED <<lookup, board, stack, ply, lastMove, lastFlag, moves, count, nodes>>

\* moves = board.generate_moves(), returning the list
GenerateMoves ==
    /\ lastOp = "from_fen"
    /\ ~generate_moves_aborts(board)
    /\ moves' = generate_moves(board)
    /\ lastOp' = "generate_moves"
    /\ UNCHANGED <<lookup, fen, board, stack, ply, lastMove, lastFlag, before, count, nodes>>

\* board.generate_moves() panics on a push into the full list
GenerateMovesPanic ==
    /\ lastOp = "from_fen"
    /\ generate_moves_aborts(board)
    /\ lastOp' = "generate_moves_panic"
    /\ UNCHANGED <<lookup, fen, board, stack, ply, lastMove, lastFlag, before, moves, count, nodes>>

\* count = board.generate_moves_count(), after generate_moves
CountMoves ==
    /\ lastOp \in {"generate_moves", "generate_moves_panic"}
    /\ count' = generate_moves_count(board)
    /\ lastOp' = IF lastOp = "generate_moves" THEN "generate_moves_count"
                 ELSE "generate_moves_count_only"
    /\ UNCHANGED <<lookup, fen, board, stack, ply, lastMove, lastFlag, before, moves, nodes>>

\* the depth up to which the caller asks for perft
MaxDepth == 3

\* the texts whose positions the caller runs perft on
PerftFens == {FenStartpos, FenKingside, FenEnPassant, FenPromotion, FenPins, FenCheck}

\* nodes = perft(&board, depth)
Perft ==
    /\ lastOp = "from_fen"
    /\ fen \in PerftFens
    /\ \E depth \in 0..MaxDepth :
        /\ nodes' = perft(board, depth)
        /\ ply' = depth
    /\ lastOp' = "perft"
    /\ UNCHANGED <<lookup, fen, board, stack, lastMove, lastFlag, before, moves, count>>

NextParse ==
    ParseFen \/ ParseFenPanic \/ EmitFen \/ GenerateMoves \/ GenerateMovesPanic
        \/ CountMoves \/ Perft

SpecParse == InitParse /\ [][NextParse]_vars

(***************************************************************************)
(* The rules of chess, stated square by square and without the bitboard    *)
(* code: what the properties below measure the generator against.          *)
(***************************************************************************)
\* the placement of a board: the (square, piece, color) triples on it
RefAt(b) ==
    UNION {{<<s, pc[1], pc[2]>> : s \in b.pieces[pc[1]] \cap b.colors[pc[2]]} :
           pc \in Pieces \X Colors}

\* what stands on the square s, and whether anything does
RefOn(pos, s) == {x \in pos : x[1] = s}
RefFree(pos, s) == \A x \in pos : x[1] # s

FileDist(s, t) == Abs(FileOf(s) - FileOf(t))
RankDist(s, t) == Abs(RankOf(s) - RankOf(t))
Dist(s, t) == IF FileDist(s, t) > RankDist(s, t) THEN FileDist(s, t) ELSE RankDist(s, t)

\* s and t are distinct squares of one rank, file or diagonal
Aligned(s, t) ==
    s # t /\ (FileDist(s, t) = 0 \/ RankDist(s, t) = 0 \/ FileDist(s, t) = RankDist(s, t))

\* the squares strictly between two aligned squares
StrictlyBetween(s, t) ==
    IF Aligned(s, t)
    THEN {s + k * (8 * Sgn(RankOf(t) - RankOf(s)) + Sgn(FileOf(t) - FileOf(s))) :
              k \in 1..(Dist(s, t) - 1)}
    ELSE {}

PathClear(pos, s, t) == \A x \in pos : x[1] \notin StrictlyBetween(s, t)

\* the forward direction of a color's pawns, in ranks
Forward(c) == IF c = White THEN 1 ELSE -1

\* a piece p of color c standing on s attacks the square t
Reaches(pos, p, c, s, t) ==
    CASE p = Pawn -> FileDist(s, t) = 1 /\ RankOf(t) - RankOf(s) = Forward(c)
      [] p = Knight -> {FileDist(s, t), RankDist(s, t)} = {1, 2}
      [] p = King -> Dist(s, t) = 1
      [] p = Bishop -> s # t /\ FileDist(s, t) = RankDist(s, t) /\ PathClear(pos, s, t)
      [] p = Rook -> s # t /\ (FileDist(s, t) = 0 \/ RankDist(s, t) = 0)
                     /\ PathClear(pos, s, t)
      [] p = Queen -> Aligned(s, t) /\ PathClear(pos, s, t)

\* some piece of color c attacks the square t
RefAttacked(pos, t, c) ==
    \E x \in pos : x[3] = c /\ Reaches(pos, x[2], c, x[1], t)

RefKing(pos, c) == (CHOOSE x \in pos : x[2] = King /\ x[3] = c)[1]

\* the king of color c stands attacked
RefInCheck(pos, c) == RefAttacked(pos, RefKing(pos, c), NotColor(c))

\* the placement after the move (s, t, flag) of the piece p of color c
RefApply(pos, p, c, s, t, flag) ==
    CASE flag = EnPassant ->
            (pos \ (RefOn(pos, s) \cup RefOn(pos, t - 8 * Forward(c))))
                \cup {<<t, Pawn, c>>}
      [] flag = KingCastle ->
            (pos \ (RefOn(pos, s) \cup RefOn(pos, t + 1)))
                \cup {<<t, King, c>>, <<t - 1, Rook, c>>}
      [] flag = QueenCastle ->
            (pos \ (RefOn(pos, s) \cup RefOn(pos, t - 2)))
                \cup {<<t, King, c>>, <<t + 1, Rook, c>>}
      [] flag >= PromoKnight ->
            (pos \ (RefOn(pos, s) \cup RefOn(pos, t)))
                \cup {<<t, Knight + (flag % 4), c>>}
      [] OTHER ->
            (pos \ (RefOn(pos, s) \cup RefOn(pos, t))) \cup {<<t, p, c>>}

\* the flags under which the rules let the piece p of color c go from s to
\* t, own king's safety aside
RefFlags(b, pos, p, c, s, t) ==
    LET enemy == \E x \in pos : x[1] = t /\ x[3] # c
        free == RefFree(pos, t)
        last == RankOf(t) = (IF c = White THEN 7 ELSE 0)
        home == RankOf(s) = (IF c = White THEN 1 ELSE 6)
    IN
    IF p = Pawn THEN
        (IF t = s + 8 * Forward(c) /\ free
         THEN (IF last THEN {PromoKnight, PromoBishop, PromoRook, PromoQueen}
               ELSE {Quiet})
         ELSE {})
        \cup (IF home /\ t = s + 16 * Forward(c) /\ free
                 /\ RefFree(pos, s + 8 * Forward(c))
              THEN {DoublePawnPush} ELSE {})
        \cup (IF Reaches(pos, Pawn, c, s, t) /\ enemy
              THEN (IF last THEN {PromoKnightCapture, PromoBishopCapture,
                                  PromoRookCapture, PromoQueenCapture}
                    ELSE {Capture})
              ELSE {})
        \cup (IF Reaches(pos, Pawn, c, s, t) /\ t \in b.ep_square
              THEN {EnPassant} ELSE {})
    ELSE
        (IF Reaches(pos, p, c, s, t) /\ (free \/ enemy)
         THEN {IF enemy THEN Capture ELSE Quiet}
         ELSE {})
        \cup (IF /\ p = King
                 /\ s = (IF c = White THEN E1 ELSE E8)
                 /\ t = s + 2
                 /\ HasBit(b.castling, IF c = White THEN 0 ELSE 2)
                 /\ <<s + 3, Rook, c>> \in pos
                 /\ RefFree(pos, s + 1) /\ RefFree(pos, s + 2)
                 /\ ~RefAttacked(pos, s, NotColor(c))
                 /\ ~RefAttacked(pos, s + 1, NotColor(c))
              THEN {KingCastle} ELSE {})
        \cup (IF /\ p = King
                 /\ s = (IF c = White THEN E1 ELSE E8)
                 /\ t = s - 2
                 /\ HasBit(b.castling, IF c = White THEN 1 ELSE 3)
                 /\ <<s - 4, Rook, c>> \in pos
                 /\ RefFree(pos, s - 1) /\ RefFree(pos, s - 2) /\ RefFree(pos, s - 3)
                 /\ ~RefAttacked(pos, s, NotColor(c))
                 /\ ~RefAttacked(pos, s - 1, NotColor(c))
              THEN {QueenCastle} ELSE {})

\* the move leaves the mover's own king unattacked
RefSafe(pos, p, c, s, t, flag) ==
    ~RefInCheck(RefApply(pos, p, c, s, t, flag), c)

\* the squares a piece p of color c on s can go to on an otherwise empty
\* board: its attacks, a pawn's pushes, a king's castling steps
RefTargets ==
    [p \in Pieces |-> [c \in Colors |-> [s \in Squares |->
        {t \in Squares :
            \/ Reaches({}, p, c, s, t)
            \/ p = Pawn /\ t \in {s + 8 * Forward(c), s + 16 * Forward(c)}
            \/ p = King /\ RankOf(t) = RankOf(s) /\ FileDist(s, t) = 2}]]]

\* the legal moves of the piece p of the side to move on s, as packed moves
RefMovesFrom(b, pos, s, p) ==
    UNION {{MoveNew(s, t, flag) :
               flag \in {f \in RefFlags(b, pos, p, b.turn, s, t) :
                             RefSafe(pos, p, b.turn, s, t, f)}} :
           t \in RefTargets[p][b.turn][s]}

\* the legal moves of the side to move
RefLegalOn(b, pos) ==
    UNION {RefMovesFrom(b, pos, x[1], x[2]) : x \in {y \in pos : y[3] = b.turn}}

RefLegalMoves(b) == RefLegalOn(b, RefAt(b))

(***************************************************************************)
(* Properties                                                              *)
(***************************************************************************)
\* the last operation made a move and returned
Made == lastOp \in {"make_move", "make_move_new"}

\* C1: after a generated move is applied, by make_move or by
\* make_move_new, to a legal position, no enemy piece attacks the king of
\* the side that just moved.
MoverKingSafe ==
    Made => ~RefInCheck(RefAt(board), NotColor(board.turn))

\* C1 at work: the side to move stood in check, a generated move was made,
\* and its king is out of check
MoverKingSafe_Witness ==
    /\ Made
    /\ before.checkers # {}
    /\ ~RefInCheck(RefAt(board), NotColor(board.turn))

\* C2: generate_moves omits no legal move: every move that follows the
\* piece-movement rules (double push, castling, en passant and the four
\* promotions included) and leaves the mover's king unattacked is in the
\* list generated for a legal position.
NoLegalMoveOmitted ==
    Running => RefLegalMoves(board) \subseteq MoveSet(generate_moves(board))

\* C2 at work: the rules allow an en passant capture among other moves, and
\* the list holds them all
NoLegalMoveOmitted_Witness ==
    /\ Running
    /\ \E mv \in RefLegalMoves(board) : MoveFlagOf(mv) = EnPassant
    /\ RefLegalMoves(board) \subseteq MoveSet(generate_moves(board))

\* C3: make_move followed by unmake_move with the UndoInfo it returned
\* restores the position exactly, in every field (piece and color
\* bitboards, turn, castling rights, ep_square, both clocks, hash and
\* checkers) and for every move flag.
UnmakeRestores ==
    lastOp = "unmake_move" => board = before

\* C3 at work: an en passant capture was made and taken back, and the
\* position, with its ep square and its captured pawn, is the one before
UnmakeRestores_Witness ==
    /\ lastOp = "unmake_move"
    /\ lastFlag = EnPassant
    /\ board.ep_square # {}
    /\ board = before

\* C4: after from_fen of a legal position and after any sequence of
\* make_move, unmake_move and make_move_new with generated moves there is
\* exactly one king per color, the two color bitboards are disjoint, the six
\* piece bitboards are pairwise disjoint, and the union of the piece
\* bitboards is the union of the color bitboards.
StructurallyConsistent ==
    Running =>
        /\ \A c \in Colors : Cardinality(board.pieces[King] \cap board.colors[c]) = 1
        /\ board.colors[White] \cap board.colors[Black] = {}
        /\ \A p, q \in Pieces : p # q => board.pieces[p] \cap board.pieces[q] = {}
        /\ UNION {board.pieces[p] : p \in Pieces}
               = board.colors[White] \cup board.colors[Black]

\* C4 at work: a capture made by make_move_new took a piece off the board
StructurallyConsistent_Witness ==
    /\ lastOp = "make_move_new"
    /\ is_capture(lastFlag)
    /\ Cardinality(occupied(board)) = Cardinality(occupied(before)) - 1
    /\ board.colors[White] \cap board.colors[Black] = {}

\* the XOR of a set of keys: the bits an odd number of them have
XorAll(keys) ==
    {i \in 0..63 : Cardinality({k \in keys : i \in k}) % 2 = 1}

\* the hash of a position computed from scratch
RefHash(b) ==
    XorAll({piece_square(x[2], x[3], x[1]) : x \in RefAt(b)}
           \cup (IF b.turn = Black THEN {side_key} ELSE {})
           \cup {castling_key(b.castling)}
           \cup {ep_file_key(FileOf(e)) : e \in b.ep_square})

\* C5: after from_fen and after any sequence of make_move and unmake_move
\* with generated moves, the stored hash is the one recomputed from scratch:
\* the XOR of the piece-square keys of the pieces present, the side key iff
\* Black is to move, the key of the castling rights, and the ep-file key iff
\* the ep square is set.
HashFromScratch ==
    Running => board.hash = RefHash(board)

\* C5 at work: a double push was made in place and the hash holds the key of
\* the ep file
HashFromScratch_Witness ==
    /\ lastOp = "make_move"
    /\ lastFlag = DoublePawnPush
    /\ board.ep_square # {}
    /\ board.hash = RefHash(board)

\* C6, as the code has it: make_move_new does not maintain the hash; the
\* position it returns carries the hash of the position it was called on.
MakeNewKeepsHash ==
    lastOp = "make_move_new" => board.hash = before.hash

\* C6 at work: make_move_new returned a position whose hash is the old one
\* and not the one of its own placement
MakeNewKeepsHash_Witness ==
    /\ lastOp = "make_move_new"
    /\ board.hash = before.hash
    /\ board.hash # RefHash(board)

\* C6 as stated: the position make_move_new returns has the hash
\* recomputed from scratch for its placement, side, rights and ep square
MakeNewHashFromScratch ==
    lastOp = "make_move_new" => board.hash = RefHash(board)

\* C7: after from_fen, make_move, unmake_move and make_move_new, in any
\* sequence with generated moves, the cached checkers are
\* attackers_to(king_square(turn), occupied) cut to the pieces of the side
\* not to move.
CheckersCached ==
    Running =>
        board.checkers =
            attackers_to(board, king_square(board, board.turn), occupied(board))
                \cap them(board)

\* C7 at work: a move that gives check was made and the cache holds the
\* checking piece
CheckersCached_Witness ==
    /\ Made
    /\ board.checkers # {}
    /\ board.checkers =
           attackers_to(board, king_square(board, board.turn), occupied(board))
               \cap them(board)

\* the fields the two make paths are to agree on: everything but the hash
NonHashState(b) ==
    <<b.pieces, b.colors, b.turn, b.castling, b.ep_square,
      b.halfmove_clock, b.fullmove_number, b.checkers>>

\* C8: the position make_move_new returns equals the one make_move
\* produces in place, from the same position with the same generated move,
\* on all piece and color bitboards, turn, castling rights, ep_square,
\* halfmove_clock, fullmove_number and checkers.
MakePathsAgree ==
    lastOp = "make_move_new" =>
        NonHashState(board) = NonHashState(make_move_board(before, lastMove))

\* the two make paths agree on the placement, the turn, the rights, the ep
\* square and the checkers
MakePathsAgreeOffClock ==
    lastOp = "make_move_new" =>
        LET m == make_move_board(before, lastMove) IN
        /\ board.pieces = m.pieces /\ board.colors = m.colors
        /\ board.turn = m.turn /\ board.castling = m.castling
        /\ board.ep_square = m.ep_square /\ board.checkers = m.checkers

\* C9: when two or more enemy pieces give check, every generated move
\* starts on the king's square and none is a castling move.
DoubleCheckKingOnly ==
    (Running /\ more_than_one(board.checkers)) =>
        \A mv \in MoveSet(generate_moves(board)) :
            /\ MoveFrom(mv) = king_square(board, board.turn)
            /\ MoveFlagOf(mv) \notin {KingCastle, QueenCastle}

\* C9 at work: a double check with a castling right and a pawn that could
\* take one checker; the king has moves
DoubleCheckKingOnly_Witness ==
    /\ Running
    /\ more_than_one(board.checkers)
    /\ board.castling # NONE
    /\ generate_moves(board) # <<>>
    /\ \A mv \in MoveSet(generate_moves(board)) :
           MoveFrom(mv) = king_square(board, board.turn)

\* the move takes the piece on the square chk: on its to-square, or en
\* passant, where the pawn taken stands behind the to-square
Takes(b, mv, chk) ==
    \/ MoveTo(mv) = chk
    \/ MoveFlagOf(mv) = EnPassant /\ MoveTo(mv) - 8 * Forward(b.turn) = chk

\* the piece on chk is a bishop, rook or queen
IsSlider(b, chk) ==
    chk \in b.pieces[Bishop] \cup b.pieces[Rook] \cup b.pieces[Queen]

\* C10: in check by exactly one piece, every generated move, en passant
\* included, takes the checking piece, lands strictly between the king and
\* a sliding checker, or is a move of the king.
SingleCheckEvasions ==
    (Running /\ exactly_one(board.checkers)) =>
        \A mv \in MoveSet(generate_moves(board)) :
            \A chk \in board.checkers :
                \/ Takes(board, mv, chk)
                \/ /\ IsSlider(board, chk)
                   /\ MoveTo(mv) \in StrictlyBetween(RefKing(RefAt(board), board.turn), chk)
                \/ MoveFrom(mv) = RefKing(RefAt(board), board.turn)

\* C10 at work: the pawn that made a double push gives check and the list
\* holds its capture en passant
SingleCheckEvasions_Witness ==
    /\ Running
    /\ exactly_one(board.checkers)
    /\ \E mv \in MoveSet(generate_moves(board)) :
           MoveFlagOf(mv) = EnPassant /\ \A chk \in board.checkers : Takes(board, mv, chk)

\* every generated move is legal and every legal move is generated
GeneratedExactlyLegal ==
    Running => RefLegalMoves(board) = MoveSet(generate_moves(board))

\* the home square of the king of color c
KingHome(c) == IF c = White THEN E1 ELSE E8

\* the squares between the king and the rook of a castling move
CastleBetween(flag, c) ==
    IF flag = KingCastle THEN {KingHome(c) + 1, KingHome(c) + 2}
    ELSE {KingHome(c) - 1, KingHome(c) - 2, KingHome(c) - 3}

\* the square the king passes over and the square it lands on
CastleKingPath(flag, c) ==
    IF flag = KingCastle THEN {KingHome(c) + 1, KingHome(c) + 2}
    ELSE {KingHome(c) - 1, KingHome(c) - 2}

\* the bit of the castling right a castling move of color c needs
CastleRightBit(flag, c) ==
    (IF c = White THEN 0 ELSE 2) + (IF flag = KingCastle THEN 0 ELSE 1)

\* C11: a KingCastle or QueenCastle move is generated only if the side to
\* move is not in check, holds the castling right, the squares between king
\* and rook are empty, and neither the square the king passes over nor the
\* one it lands on is attacked by an enemy piece in the current placement.
CastleOnlyWhenAllowed ==
    Running =>
        \A mv \in MoveSet(generate_moves(board)) :
            MoveFlagOf(mv) \in {KingCastle, QueenCastle} =>
                /\ ~RefInCheck(RefAt(board), board.turn)
                /\ HasBit(board.castling, CastleRightBit(MoveFlagOf(mv), board.turn))
                /\ \A q \in CastleBetween(MoveFlagOf(mv), board.turn) :
                       RefFree(RefAt(board), q)
                /\ \A q \in CastleKingPath(MoveFlagOf(mv), board.turn) :
                       ~RefAttacked(RefAt(board), q, NotColor(board.turn))

\* C11 at work: after a move was made the side to move holds a castling
\* right whose path is empty; the castling move is in the list in one such
\* state and, the square the king passes over being attacked, not in another
CastleOnlyWhenAllowed_Witness ==
    /\ Made
    /\ board.castling # NONE
    /\ \E mv \in MoveSet(generate_moves(board)) :
           /\ MoveFlagOf(mv) \in {KingCastle, QueenCastle}
           /\ \A q \in CastleKingPath(MoveFlagOf(mv), board.turn) :
                  ~RefAttacked(RefAt(board), q, NotColor(board.turn))

\* an enemy bishop, rook or queen of the placement pos attacks the king of
\* color c along its line
RefSliderAttacksKing(pos, c) ==
    \E x \in pos :
        /\ x[3] = NotColor(c)
        /\ x[2] \in {Bishop, Rook, Queen}
        /\ Reaches(pos, x[2], x[3], x[1], RefKing(pos, c))

\* C12: an EnPassant move is generated only if, with the capturing pawn
\* taken from its origin, the captured pawn removed and the capturer put on
\* the ep square, no enemy rook or queen attacks the mover's king along a
\* rank or file and no enemy bishop or queen along a diagonal.
EnPassantKeepsKingCovered ==
    Running =>
        \A mv \in MoveSet(generate_moves(board)) :
            MoveFlagOf(mv) = EnPassant =>
                ~RefSliderAttacksKing(
                    RefApply(RefAt(board), Pawn, board.turn,
                             MoveFrom(mv), MoveTo(mv), EnPassant),
                    board.turn)

\* C12 at work: a double push was made, the pawn beside it may take en
\* passant, and the list holds that capture
EnPassantKeepsKingCovered_Witness ==
    /\ Made
    /\ lastFlag = DoublePawnPush
    /\ \E mv \in MoveSet(generate_moves(board)) :
           /\ MoveFlagOf(mv) = EnPassant
           /\ MoveTo(mv) \in board.ep_square
           /\ ~RefSliderAttacksKing(
                  RefApply(RefAt(board), Pawn, board.turn,
                           MoveFrom(mv), MoveTo(mv), EnPassant),
                  board.turn)

(***************************************************************************)
(* FEN texts, judged field by field and without the parser.                *)
(***************************************************************************)
\* the files a placement character stands for: a digit run its value, any
\* other character one
FilesOf(c) == IF IsDigit(c) THEN DigitValue(c) ELSE 1

\* the files the characters i..j of a placement describe
RECURSIVE FilesIn(_, _, _)
FilesIn(str, i, j) ==
    IF i > j THEN 0
    ELSE IF i = j THEN FilesOf(str[i])
    ELSE FilesIn(str, i, (i + j) \div 2) + FilesIn(str, (i + j) \div 2 + 1, j)

\* the positions of the rank separators of a placement, with both ends
Cuts(str) == {0, Len(str) + 1} \cup {i \in 1..Len(str) : str[i] = "/"}

\* some rank of the placement describes more than eight files
TooManyFiles(str) ==
    \E i, j \in Cuts(str) :
        /\ i < j
        /\ \A k \in (i + 1)..(j - 1) : str[k] # "/"
        /\ FilesIn(str, i + 1, j - 1) > 8

\* the placement has more than eight ranks
TooManyRanks(str) == Cardinality(Cuts(str)) - 1 > 8

\* an algebraic square: a file letter and a rank digit
IsAlgebraic(str) ==
    /\ Len(str) = 2
    /\ \E i \in 1..8 : str[1] \in {FileChars[i], FileCharsUpper[i]}
    /\ \E i \in 2..9 : str[2] = DigitChars[i]

\* the ways of being malformed that spare the placement
MalformedFields(parts) ==
    \/ Len(parts) < 4
    \/ parts[2] \notin {<<"w">>, <<"b">>}
    \/ parts[3] # <<"-">> /\ \E i \in 1..Len(parts[3]) : parts[3][i] \notin {"K", "Q", "k", "q"}
    \/ parts[4] # <<"-">> /\ ~IsAlgebraic(parts[4])

\* the ways of being malformed in the placement
MalformedPlacement(parts) ==
    Len(parts) >= 1 /\ (TooManyFiles(parts[1]) \/ TooManyRanks(parts[1]))

Malformed(text) ==
    MalformedFields(split_whitespace(text)) \/ MalformedPlacement(split_whitespace(text))

\* the text has a placement with a rank of more than eight files
ManyFiles(text) ==
    Len(split_whitespace(text)) >= 1 /\ TooManyFiles(split_whitespace(text)[1])

\* C13: from_fen answers a text that is malformed in one of the listed ways
\* (fewer than four fields, a side other than w or b, a castling character
\* outside KQkq, an en-passant field that is neither - nor a square, a rank
\* of more than eight files, more than eight ranks) with Err: it neither
\* returns a position nor panics.
MalformedFenIsErr ==
    (lastOp \in {"from_fen", "from_fen_panic"} /\ before = empty_board) => ~Malformed(fen)

\* what the parser does keep of C13: with at most eight files described in
\* every rank, a malformed text is answered with Err
MalformedFieldsAreErr ==
    (lastOp \in {"from_fen", "from_fen_panic"} /\ before = empty_board)
        => ~(Malformed(fen) /\ ~ManyFiles(fen))

\* the data-model invariants of a position, but for the kings: the sets are
\* disjoint, and checkers and hash are the ones of the placement
SetsAndCachesConsistent(b) ==
    /\ b.colors[White] \cap b.colors[Black] = {}
    /\ \A p, q \in Pieces : p # q => b.pieces[p] \cap b.pieces[q] = {}
    /\ UNION {b.pieces[p] : p \in Pieces} = b.colors[White] \cup b.colors[Black]
    /\ b.hash = RefHash(b)
    /\ b.checkers = {x[1] : x \in {y \in RefAt(b) :
                         /\ y[3] = NotColor(b.turn)
                         /\ Reaches(RefAt(b), y[2], y[3], y[1], king_square(b, b.turn))}}

\* exactly one king of each color
OneKingEach(b) == \A c \in Colors : Cardinality(b.pieces[King] \cap b.colors[c]) = 1

\* C14: a position that from_fen returns as Ok satisfies the data-model
\* invariants (one king per color, disjoint sets, checkers and hash those of
\* the placement), and a text whose placement lacks a king is answered with
\* Err: from_fen neither returns a position for it nor panics.
ParsedIsConsistent ==
    /\ lastOp = "from_fen" => OneKingEach(board) /\ SetsAndCachesConsistent(board)
    /\ lastOp = "from_fen_panic" => OneKingEach(parse_fields(fen).board)

\* what the parser does keep of C14: the sets, the hash and the checkers of
\* a returned position are consistent, and the side to move has a king
ParsedIsConsistentButKings ==
    lastOp = "from_fen" =>
        /\ piece_color_bb(board, King, board.turn) # {}
        /\ SetsAndCachesConsistent(board)

\* the value of a run of decimal digits
RECURSIVE DecimalValue(_)
DecimalValue(str) ==
    IF str = <<>> THEN 0
    ELSE 10 * DecimalValue(SubSeq(str, 1, Len(str) - 1)) + DigitValue(str[Len(str)])

\* a number as to_string writes it: digits only, no leading zero, in range
CanonicalNumber(str, max) ==
    /\ str # <<>>
    /\ \A i \in 1..Len(str) : IsDigit(str[i])
    /\ Len(str) > 1 => str[1] # "0"
    /\ DecimalValue(str) <= max

\* a placement of eight ranks of exactly eight files each, written with
\* piece letters and single digits 1..8, no two digits in a row
CanonicalPlacement(str) ==
    /\ Cardinality(Cuts(str)) = 9
    /\ \A i \in 1..Len(str) :
        \/ str[i] = "/"
        \/ \E k \in 1..12 : PieceChars[k] = str[i]
        \/ \E k \in 2..9 : DigitChars[k] = str[i]
    /\ \A i \in 1..(Len(str) - 1) : ~(IsDigit(str[i]) /\ IsDigit(str[i + 1]))
    /\ \A i, j \in Cuts(str) :
        (i < j /\ \A k \in (i + 1)..(j - 1) : str[k] # "/")
            => FilesIn(str, i + 1, j - 1) = 8

\* the place of a castling letter in the order K, Q, k, q
CastleOrder(c) == CASE c = "K" -> 1 [] c = "Q" -> 2 [] c = "k" -> 3 [] c = "q" -> 4 [] OTHER -> 0

\* a castling field as written by convention: "-", or letters in the order KQkq
CanonicalCastling(str) ==
    \/ str = <<"-">>
    \/ /\ str # <<>>
       /\ \A i \in 1..Len(str) : CastleOrder(str[i]) > 0
       /\ \A i \in 1..(Len(str) - 1) : CastleOrder(str[i]) < CastleOrder(str[i + 1])

\* an en-passant field as written by convention: "-", or a lower-case file
\* letter and a rank digit
CanonicalEp(str) ==
    \/ str = <<"-">>
    \/ /\ Len(str) = 2
       /\ \E i \in 1..8 : str[1] = FileChars[i]
       /\ \E i \in 2..9 : str[2] = DigitChars[i]

\* a canonically written six-field text: single spaces between the fields
\* and nowhere else, every field in its conventional form
Canonical(text) ==
    /\ \A i \in 1..Len(text) : IsSpace(text[i]) => text[i] = " "
    /\ Cardinality({i \in 1..Len(text) : text[i] = " "}) = 5
    /\ Len(split_whitespace(text)) = 6
    /\ CanonicalPlacement(split_whitespace(text)[1])
    /\ split_whitespace(text)[2] \in {<<"w">>, <<"b">>}
    /\ CanonicalCastling(split_whitespace(text)[3])
    /\ CanonicalEp(split_whitespace(text)[4])
    /\ CanonicalNumber(split_whitespace(text)[5], 255)
    /\ CanonicalNumber(split_whitespace(text)[6], 65535)

\* C15: the FEN round trip. Parsing the text that to_fen wrote for a position
\* satisfying the data-model invariants succeeds and gives back that position
\* in every field (placement, turn, castling, ep_square, both clocks, hash,
\* checkers); and to_fen of the position parsed from a canonically written
\* six-field text is that text.
FenRoundTrip ==
    /\ (lastOp \in {"from_fen", "from_fen_err", "from_fen_panic"} /\ before # empty_board
            /\ OneKingEach(before) /\ SetsAndCachesConsistent(before))
        => (lastOp = "from_fen" /\ board = before)
    /\ (lastOp = "from_fen" /\ before = empty_board /\ Canonical(fen))
        => to_fen(board) = fen

\* C15 at work: a position with castling rights and an ep square was
\* written by to_fen and parsed back, and the text is the one first parsed
FenRoundTrip_Witness ==
    /\ lastOp = "from_fen"
    /\ before = board
    /\ board.castling # NONE
    /\ board.ep_square # {}
    /\ OneKingEach(board)
    /\ Canonical(fen)
    /\ fen \in FenInputs

\* C15 on the positions reached by play: what to_fen writes for the board
\* parses back to the board, and the text first parsed is what to_fen writes
\* for the position parsed from it
PlayedRoundTrip ==
    Running =>
        /\ from_fen(to_fen(board)).ok
        /\ from_fen(to_fen(board)).board = board
        /\ lastOp = "from_fen" => to_fen(board) = fen

\* C16, as the code has it: for every position whose moves fit the 256
\* entries of a MoveList, generate_moves_count is the length of the list of
\* generate_moves; for a position with more moves generate_moves does not
\* return, and the count is the number of pushes.
CountIsListLength ==
    /\ lastOp = "generate_moves_count" => count = Len(moves)
    /\ lastOp = "generate_moves_count_only" => count > MoveListCapacity

\* C16 at work: the 20 moves of the starting position were listed and counted
CountIsListLength_Witness ==
    /\ lastOp = "generate_moves_count"
    /\ fen = FenStartpos
    /\ count = 20
    /\ Len(moves) = 20

\* C16 as stated: for every position the count is the length of the list
\* that generate_moves returns
CountIsListLengthEverywhere ==
    lastOp \in {"generate_moves_count", "generate_moves_count_only"}
        => (lastOp = "generate_moves_count" /\ count = Len(moves))

\* no two entries of the list ml agree in from-square, to-square and flag
NoRepeat(ml) ==
    \A i, j \in 1..Len(ml) :
        (/\ MoveFrom(ml[i]) = MoveFrom(ml[j])
         /\ MoveTo(ml[i]) = MoveTo(ml[j])
         /\ MoveFlagOf(ml[i]) = MoveFlagOf(ml[j])) => i = j

\* two entries of the list ml agree in from- and to-square and differ in
\* the flag
SharedSquares(ml) ==
    \E i, j \in 1..Len(ml) :
        /\ MoveFrom(ml[i]) = MoveFrom(ml[j])
        /\ MoveTo(ml[i]) = MoveTo(ml[j])
        /\ MoveFlagOf(ml[i]) # MoveFlagOf(ml[j])

\* C17: in every legal position the list of generate_moves has no two
\* entries with the same from-square, to-square and flag.
NoDuplicateMoves == Running => NoRepeat(generate_moves(board))

\* C17 at work: after a move the list holds entries that share their from-
\* and to-square and differ in the flag alone (the four promotions), and
\* no entry occurs twice
NoDuplicateMoves_Witness ==
    /\ Made
    /\ SharedSquares(generate_moves(board))
    /\ NoRepeat(generate_moves(board))

\* the sum of a sequence of numbers
RECURSIVE SeqSum(_, _, _)
SeqSum(seq, i, j) ==
    IF i > j THEN 0
    ELSE IF i = j THEN seq[i]
    ELSE SeqSum(seq, i, (i + j) \div 2) + SeqSum(seq, (i + j) \div 2 + 1, j)

\* perft of the positions make_move_new returns for the moves of a list
ChildLeaves(b, ml, depth) ==
    [i \in 1..Len(ml) |-> perft(make_move_new(b, ml[i]), depth)]

\* perft of the starting position at depths 0 to 4, as the tests of
\* testing/perft.rs have them
StartposLeaves == <<1, 20, 400, 8902, 197281>>

\* C18: perft counts the leaves of the legal game tree: at depth 0 it is 1,
\* at depth 1 the number of moves in the list of generate_moves, at depth d
\* the sum over the generated moves m of perft(make_move_new(p, m), d - 1);
\* from the starting position it is 20, 400 and 8902 at depths 1, 2 and 3.
PerftCountsLeaves ==
    lastOp = "perft" =>
        /\ ply = 0 => nodes = 1
        /\ ply = 1 => nodes = Len(generate_moves(board))
        /\ ply >= 1 => nodes = SeqSum(ChildLeaves(board, generate_moves(board), ply - 1),
                                     1, Len(generate_moves(board)))
        /\ (fen = FenStartpos /\ ply < Len(StartposLeaves)) => nodes = StartposLeaves[ply + 1]

\* C18 at work: perft was run to depth 3 from the starting position and
\* returned 8902
PerftCountsLeaves_Witness ==
    /\ lastOp = "perft"
    /\ fen = FenStartpos
    /\ ply = 3
    /\ nodes = 8902

\* the flags of a move onto an enemy piece, and of a move onto an empty square
CaptureFlags ==
    {Capture, PromoKnightCapture, PromoBishopCapture, PromoRookCapture, PromoQueenCapture}
EmptyTargetFlags ==
    {Quiet, DoublePawnPush, PromoKnight, PromoBishop, PromoRook, PromoQueen}

\* the flag of the move mv fits the placement pos with c to move and the ep
\* square ep
FlagFits(pos, c, ep, mv) ==
    /\ \E x \in pos : x[1] = MoveFrom(mv) /\ x[3] = c
    /\ MoveFlagOf(mv) \in CaptureFlags
        => \E x \in pos : x[1] = MoveTo(mv) /\ x[3] = NotColor(c)
    /\ MoveFlagOf(mv) \in EmptyTargetFlags => RefFree(pos, MoveTo(mv))
    /\ MoveFlagOf(mv) = EnPassant
        => /\ ep = {MoveTo(mv)}
           /\ <<MoveTo(mv) - 8 * Forward(c), Pawn, NotColor(c)>> \in pos

\* C19: the flag of every generated move matches the board: the from-square
\* holds a piece of the side to move; Capture and the promotion captures
\* land on an enemy piece; Quiet, DoublePawnPush and the quiet promotions
\* land on an empty square; EnPassant lands on ep_square, with an enemy pawn
\* on the square directly behind it.
FlagsMatchBoard ==
    Running =>
        \A mv \in MoveSet(generate_moves(board)) : FlagFits(RefAt(board), board.turn, board.ep_square, mv)

\* C19 at work: after a double push the list holds an en passant capture of
\* the pushed pawn next to quiet moves
FlagsMatchBoard_Witness ==
    /\ Made
    /\ lastFlag = DoublePawnPush
    /\ \E mv \in MoveSet(generate_moves(board)) :
        /\ MoveFlagOf(mv) = EnPassant
        /\ FlagFits(RefAt(board), board.turn, board.ep_square, mv)
    /\ \E mv \in MoveSet(generate_moves(board)) : MoveFlagOf(mv) = Quiet

\* t lies on the line through the distinct aligned squares a and b
SameLine(a, b, t) ==
    \/ t \in {a, b}
    \/ t \in StrictlyBetween(a, b)
    \/ b \in StrictlyBetween(a, t)
    \/ a \in StrictlyBetween(t, b)

\* the enemy sliders of c that look at the square k along one of their
\* lines, whatever stands between
SlidersToward(pos, c, k) ==
    {y \in pos :
        /\ y[3] = NotColor(c)
        /\ \/ y[2] \in {Bishop, Queen} /\ y[1] # k /\ FileDist(y[1], k) = RankDist(y[1], k)
           \/ y[2] \in {Rook, Queen} /\ y[1] # k
                /\ (FileDist(y[1], k) = 0 \/ RankDist(y[1], k) = 0)}

\* the pieces strictly between the squares k and u
PiecesBetween(pos, k, u) == {x \in pos : x[1] \in StrictlyBetween(k, u)}

\* the piece on s is the only piece between the king of c and an enemy slider
RefPinned(pos, c, s) ==
    \E y \in SlidersToward(pos, c, RefKing(pos, c)) :
        PiecesBetween(pos, RefKing(pos, c), y[1]) = RefOn(pos, s) /\ RefOn(pos, s) # {}

\* the piece on s stands between the king of c and an enemy slider together
\* with at least one more piece
RefShielded(pos, c, s) ==
    \E y \in SlidersToward(pos, c, RefKing(pos, c)) :
        /\ RefOn(pos, s) \subseteq PiecesBetween(pos, RefKing(pos, c), y[1])
        /\ Cardinality(PiecesBetween(pos, RefKing(pos, c), y[1])) >= 2

\* the pin rule for the piece x of the side to move
PinRule(b, ml, pos, x) ==
    /\ RefPinned(pos, b.turn, x[1]) =>
        /\ \A mv \in MoveSet(ml) :
              MoveFrom(mv) = x[1] => SameLine(RefKing(pos, b.turn), x[1], MoveTo(mv))
        /\ x[2] = Knight => \A mv \in MoveSet(ml) : MoveFrom(mv) # x[1]
    /\ (RefShielded(pos, b.turn, x[1]) /\ ~RefPinned(pos, b.turn, x[1])) =>
        \A mv \in RefLegalMoves(b) : MoveFrom(mv) = x[1] => mv \in MoveSet(ml)

\* the pin rule for every piece of the side to move but the king
PinRules(b, ml, pos) ==
    \A x \in pos : (x[3] = b.turn /\ x[2] # King) => PinRule(b, ml, pos, x)

\* C20: a piece of the side to move that is the only piece between its king
\* and an enemy bishop or queen on a diagonal, or an enemy rook or queen on a
\* file or rank, is generated only with destinations on the line through
\* king and piece, and not at all if it is a knight; a piece that shares the
\* line between king and slider with another piece is not restricted: every
\* move the rules allow it is generated.
PinsRestrictMoves ==
    Running => PinRules(board, generate_moves(board), RefAt(board))

\* C20 at work: the pawn that shared the diagonal with the knight has
\* advanced, the knight is pinned, and the list has no move of the knight
PinsRestrictMoves_Witness ==
    /\ Made
    /\ generate_moves(board) # <<>>
    /\ \E x \in RefAt(board) :
        /\ x[3] = board.turn /\ x[2] = Knight
        /\ RefPinned(RefAt(board), board.turn, x[1])
        /\ \A mv \in MoveSet(generate_moves(board)) : MoveFrom(mv) # x[1]

\* C20 at work on a shared line: a knight that stands with a pawn between
\* king and bishop has a move in the list that leaves the diagonal
ShieldedMovesOffLine_Witness ==
    /\ Running
    /\ \E x \in RefAt(board) :
        /\ x[3] = board.turn /\ x[2] = Knight
        /\ RefShielded(RefAt(board), board.turn, x[1])
        /\ \E mv \in MoveSet(generate_moves(board)) :
            /\ MoveFrom(mv) = x[1]
            /\ ~SameLine(RefKing(RefAt(board), board.turn), x[1], MoveTo(mv))

\* C20 at work on a line piece: a pinned rook, bishop, queen or pawn has a
\* move in the list, along the line of its pin
PinnedMovesAlongLine_Witness ==
    /\ Made
    /\ \E x \in RefAt(board) :
        /\ x[3] = board.turn /\ x[2] \notin {King, Knight}
        /\ RefPinned(RefAt(board), board.turn, x[1])
        /\ \E mv \in MoveSet(generate_moves(board)) : MoveFrom(mv) = x[1]

\* the square a double push of color c onto the square t passes over: on
\* the file of t, on the third rank for White and on the sixth for Black
EpTarget(c, t) == from_file_rank(FileOf(t), IF c = White THEN 2 ELSE 5)

\* C21: after make_move or make_move_new of a move m, ep_square is set if
\* and only if m is a DoublePawnPush, and then it is the square directly
\* behind the moved pawn (rank 3 after a White push, rank 6 after a Black
\* push); an ep_square present before the move is cleared, so an ep target
\* survives for exactly one ply.
EpLifecycle ==
    Made =>
        /\ (board.ep_square # {}) <=> (lastFlag = DoublePawnPush)
        /\ lastFlag = DoublePawnPush =>
            /\ board.ep_square = {EpTarget(before.turn, MoveTo(lastMove))}
            /\ \A e \in board.ep_square :
                /\ 2 * e = MoveFrom(lastMove) + MoveTo(lastMove)
                /\ RefFree(RefAt(board), e)
                /\ <<e + 8 * Forward(before.turn), Pawn, before.turn>> \in RefAt(board)
        /\ lastFlag # DoublePawnPush => board.ep_square = {}

\* C21 at work: a double push set the ep square behind its pawn, the answer
\* to it was no double push, and the ep square is gone after one ply
EpLifecycle_Witness ==
    /\ lastOp = "make_move"
    /\ Len(stack) = 2
    /\ MoveFlagOf(stack[1].mv) = DoublePawnPush
    /\ before.ep_square = {EpTarget(stack[1].before.turn, MoveTo(stack[1].mv))}
    /\ board.ep_square = {}

\* the castling rights of a mask, by their FEN letters
RightsHeld(r) ==
    {x \in {"K", "Q", "k", "q"} :
        \/ x = "K" /\ has_white_kingside(r)
        \/ x = "Q" /\ has_white_queenside(r)
        \/ x = "k" /\ has_black_kingside(r)
        \/ x = "q" /\ has_black_queenside(r)}

\* the rights that end when a piece leaves or enters the square sq: those of
\* the king or the rook whose home square it is
RightsEndedAt(sq) ==
    CASE sq = A1 -> {"Q"}
      [] sq = E1 -> {"K", "Q"}
      [] sq = H1 -> {"K"}
      [] sq = A8 -> {"q"}
      [] sq = E8 -> {"k", "q"}
      [] sq = H8 -> {"k"}
      [] OTHER -> {}

\* C22: after make_move or make_move_new with from-square f and to-square
\* t the rights are the rights before without those that update_mask(f) and
\* update_mask(t) clear (A1 clears WQ, E1 clears WK and WQ, H1 clears WK,
\* mirrored on rank 8, every other square clears nothing); no make adds a
\* right, so along a sequence of makes the rights only shrink.
RightsOnlyShrink ==
    Made =>
        /\ RightsHeld(board.castling) =
               RightsHeld(before.castling)
                   \ (RightsEndedAt(MoveFrom(lastMove)) \cup RightsEndedAt(MoveTo(lastMove)))
        /\ RightsHeld(board.castling) \subseteq RightsHeld(before.castling)
        /\ board.castling \in 0..15
        /\ \A sq \in Squares : RightsHeld(update_mask(sq)) = RightsEndedAt(sq)

\* C22 at work: a rook was taken on its home corner and the right of that
\* rook, held before, is gone, while no piece left a home square
RightsOnlyShrink_Witness ==
    /\ Made
    /\ is_capture(lastFlag)
    /\ RightsEndedAt(MoveFrom(lastMove)) = {}
    /\ RightsEndedAt(MoveTo(lastMove)) \cap RightsHeld(before.castling) # {}
    /\ RightsHeld(board.castling) =
           RightsHeld(before.castling) \ RightsEndedAt(MoveTo(lastMove))

\* the move (from, to, flag) made on the placement pos by the side c moves a
\* pawn or takes a piece (en passant and the promotions included)
RefPawnOrCapture(pos, c, from, to, flag) ==
    \/ <<from, Pawn, c>> \in pos
    \/ ~RefFree(pos, to)
    \/ flag = EnPassant

\* C23: make_move sets halfmove_clock to 0 when the moved piece is a pawn or
\* the move captures (en passant and promotions included) and to the
\* previous value plus one otherwise; fullmove_number grows by one exactly
\* when the side that moved is Black and is unchanged when White moved.
ClocksUpdated ==
    lastOp = "make_move" =>
        /\ board.halfmove_clock =
               IF RefPawnOrCapture(RefAt(before), before.turn, MoveFrom(lastMove),
                                   MoveTo(lastMove), lastFlag)
               THEN 0 ELSE before.halfmove_clock + 1
        /\ board.fullmove_number =
               IF before.turn = Black THEN before.fullmove_number + 1
               ELSE before.fullmove_number

\* the same for the moves made with both counters below their maxima, 255
\* and 65535
ClocksUpdatedBelowMax ==
    (/\ lastOp = "make_move"
     /\ before.halfmove_clock < 255
     /\ before.fullmove_number < 65535) =>
        /\ board.halfmove_clock =
               IF RefPawnOrCapture(RefAt(before), before.turn, MoveFrom(lastMove),
                                   MoveTo(lastMove), lastFlag)
               THEN 0 ELSE before.halfmove_clock + 1
        /\ board.fullmove_number =
               IF before.turn = Black THEN before.fullmove_number + 1
               ELSE before.fullmove_number

\* counted moves below the maxima: a quiet piece move raised the halfmove
\* clock from a value that a capture or a pawn move had not just reset
ClocksUpdatedBelowMax_Witness ==
    /\ lastOp = "make_move"
    /\ before.halfmove_clock \in 1..254
    /\ before.turn = Black
    /\ board.halfmove_clock = before.halfmove_clock + 1
    /\ board.fullmove_number = before.fullmove_number + 1

\* where the king and the rook of color c stand before and after a castling
\* move, counted in files from the king's home square
CastleKingTo(flag, c) == IF flag = KingCastle THEN KingHome(c) + 2 ELSE KingHome(c) - 2
CastleRookHome(flag, c) == IF flag = KingCastle THEN KingHome(c) + 3 ELSE KingHome(c) - 4
CastleRookTo(flag, c) == IF flag = KingCastle THEN KingHome(c) + 1 ELSE KingHome(c) - 1

\* king and rook of color c stand on their home squares in pos
CastleUnmoved(pos, flag, c) ==
    /\ <<KingHome(c), King, c>> \in pos
    /\ <<CastleRookHome(flag, c), Rook, c>> \in pos

\* C24: make_move of a KingCastle move takes the mover's king from E to G
\* and its rook from H to F on the mover's back rank, a QueenCastle move
\* takes the king from E to C and the rook from A to D; no other square
\* changes occupancy, and unmake_move puts king and rook back on E and the
\* corner.
CastleExecuted ==
    /\ (lastOp = "make_move" /\ lastFlag \in {KingCastle, QueenCastle}) =>
        /\ MoveFrom(lastMove) = KingHome(before.turn)
        /\ MoveTo(lastMove) = CastleKingTo(lastFlag, before.turn)
        /\ RankOf(MoveTo(lastMove)) = (IF before.turn = White THEN 0 ELSE 7)
        /\ FileOf(MoveTo(lastMove)) = (IF lastFlag = KingCastle THEN 6 ELSE 2)
        /\ CastleUnmoved(RefAt(before), lastFlag, before.turn)
        /\ RefAt(board) =
               (RefAt(before) \ {<<KingHome(before.turn), King, before.turn>>,
                                 <<CastleRookHome(lastFlag, before.turn), Rook, before.turn>>})
                   \cup {<<CastleKingTo(lastFlag, before.turn), King, before.turn>>,
                         <<CastleRookTo(lastFlag, before.turn), Rook, before.turn>>}
    /\ (lastOp = "unmake_move" /\ lastFlag \in {KingCastle, QueenCastle}) =>
        /\ CastleUnmoved(RefAt(board), lastFlag, board.turn)
        /\ RefFree(RefAt(board), CastleKingTo(lastFlag, board.turn))
        /\ RefFree(RefAt(board), CastleRookTo(lastFlag, board.turn))
        /\ RefAt(board) = RefAt(before)

\* C24 at work: Black castled on the queen's side and the move was taken
\* back; king and rook stand on e8 and a8 again
CastleExecuted_Witness ==
    /\ lastOp = "unmake_move"
    /\ lastFlag = QueenCastle
    /\ board.turn = Black
    /\ {<<E8, King, Black>>, <<A8, Rook, Black>>} \subseteq RefAt(board)
    /\ RefAt(board) = RefAt(before)

\* White castled on the king's side: king on g1, rook on f1
CastleMade_Witness ==
    /\ lastOp = "make_move"
    /\ lastFlag = KingCastle
    /\ {<<G1, King, White>>, <<F1, Rook, White>>} \subseteq RefAt(board)
    /\ RefFree(RefAt(board), E1) /\ RefFree(RefAt(board), H1)

\* the four promotion flags to an empty and to an enemy-occupied square
PromoFlags(capture) ==
    IF capture
    THEN {PromoKnightCapture, PromoBishopCapture, PromoRookCapture, PromoQueenCapture}
    ELSE {PromoKnight, PromoBishop, PromoRook, PromoQueen}

\* the piece a promotion flag names
RefPromoPiece(flag) ==
    CASE flag \in {PromoKnight, PromoKnightCapture} -> Knight
      [] flag \in {PromoBishop, PromoBishopCapture} -> Bishop
      [] flag \in {PromoRook, PromoRookCapture} -> Rook
      [] flag \in {PromoQueen, PromoQueenCapture} -> Queen

\* the entries of the list ml from s to t are four, one for each of Queen,
\* Rook, Bishop and Knight, with the capture flags iff capture
FourPromotions(ml, s, t, capture) ==
    LET idx == {i \in 1..Len(ml) : MoveFrom(ml[i]) = s /\ MoveTo(ml[i]) = t} IN
    /\ Cardinality(idx) = 4
    /\ {MoveFlagOf(ml[i]) : i \in idx} = PromoFlags(capture)
    /\ {RefPromoPiece(MoveFlagOf(ml[i])) : i \in idx} = {Queen, Rook, Bishop, Knight}

\* the promotion rule for the list ml generated for the board b with the
\* placement pos: every pawn of the side to move one step from its last
\* rank, every square
PromotionRule(b, ml, pos) ==
    \A x \in pos :
        (x[2] = Pawn /\ x[3] = b.turn
            /\ RankOf(x[1]) = (IF b.turn = White THEN 6 ELSE 1)) =>
        \A t \in Squares :
            LET push == t = x[1] + 8 * Forward(b.turn) /\ RefFree(pos, t)
                take == /\ Reaches(pos, Pawn, b.turn, x[1], t)
                        /\ \E y \in pos : y[1] = t /\ y[3] # b.turn
            IN  IF (push \/ take) /\ RefSafe(pos, Pawn, b.turn, x[1], t, PromoQueen)
                THEN FourPromotions(ml, x[1], t, take)
                ELSE \A i \in 1..Len(ml) : MoveFrom(ml[i]) # x[1] \/ MoveTo(ml[i]) # t

\* C25: for every pawn of the side to move on its promotion-from rank and
\* every legal destination (the empty push square, or a diagonal square
\* holding an enemy piece) exactly four moves are generated, one each for
\* Queen, Rook, Bishop and Knight, with the capture variant of the flag
\* exactly when the destination is enemy-occupied; make_move takes the pawn
\* off the from-square and puts the promoted piece of the mover's color on
\* the to-square, removing a captured piece.
PromotionsComplete ==
    /\ Running => PromotionRule(board, generate_moves(board), RefAt(board))
    /\ (lastOp = "make_move" /\ lastFlag \in PromoFlags(TRUE) \cup PromoFlags(FALSE)) =>
        /\ <<MoveFrom(lastMove), Pawn, before.turn>> \in RefAt(before)
        /\ (lastFlag \in PromoFlags(TRUE)) <=> ~RefFree(RefAt(before), MoveTo(lastMove))
        /\ RefAt(board) =
               (RefAt(before) \ (RefOn(RefAt(before), MoveFrom(lastMove))
                                 \cup RefOn(RefAt(before), MoveTo(lastMove))))
                   \cup {<<MoveTo(lastMove), RefPromoPiece(lastFlag), before.turn>>}

\* C25 at work: a pawn took a piece on its last rank and became a knight,
\* from a position whose list held the four capture promotions of that pawn
PromotionsComplete_Witness ==
    /\ lastOp = "make_move"
    /\ lastFlag = PromoKnightCapture
    /\ ~RefFree(RefAt(before), MoveTo(lastMove))
    /\ <<MoveTo(lastMove), Knight, before.turn>> \in RefAt(board)
    /\ RefFree(RefAt(board), MoveFrom(lastMove))
    /\ FourPromotions(generate_moves(before), MoveFrom(lastMove), MoveTo(lastMove), TRUE)


(***************************************************************************)
(* The magic attack tables: init_rook_attacks and init_bishop_attacks fill *)
(* the window of a square slot by slot, rook_attacks and bishop_attacks    *)
(* read a slot back.                                                       *)
(***************************************************************************)
\* the widest mask whose window is filled and queried
MaxMaskBits == 11

\* the rook squares whose windows are filled: a centre square, where no two
\* blocker sets share a slot, and squares of rank 8 whose magic numbers fold
\* blocker sets with one attack set into one slot
RookSquares ==
    {sq \in {from_file_rank(3, 3), from_file_rank(1, 7), C8, A8, H8} :
        Cardinality(rook_mask(sq)) <= MaxMaskBits}

\* the bishop squares whose windows are filled: all of them
BishopSquares ==
    {sq \in Squares : Cardinality(bishop_mask(sq)) <= MaxMaskBits}

MagicOf(piece, sq) ==
    IF piece = Rook THEN init_rook_magics(sq) ELSE init_bishop_magics(sq)

AttacksSlow(piece, sq, occ) ==
    IF piece = Rook THEN rook_attacks_slow(sq, occ) ELSE bishop_attacks_slow(sq, occ)

\* the slots of the attack table that belong to one square
Window(m) == m.offset .. (m.offset + TableSize(m.mask) - 1)

\* "let mut attacks = [Bitboard::EMPTY; N]", at the top of the loop of one
\* square
InitMagic ==
    /\ board = empty_board
    /\ stack = <<>>
    /\ ply = 0
    /\ lastOp = "static"
    /\ lastMove = MoveNull
    /\ lastFlag = Quiet
    /\ before = empty_board
    /\ fen = <<>>
    /\ moves = <<>>
    /\ count = 0
    /\ nodes = 0
    /\ \E piece \in {Rook, Bishop} :
       \E sq \in IF piece = Rook THEN RookSquares ELSE BishopSquares :
            lookup = [table |-> piece, sq |-> sq, magic |-> MagicOf(piece, sq),
                      idx |-> 0,
                      attacks |-> [k \in Window(MagicOf(piece, sq)) |-> EMPTY],
                      occ |-> EMPTY, result |-> EMPTY]

\* one turn of "while idx < size": attacks[index] = attack
InitAttacks ==
    /\ lastOp \in {"static", "init_attacks"}
    /\ lookup.idx < TableSize(lookup.magic.mask)
    /\ LET occ == OccOfIndex(lookup.magic.mask, lookup.idx)
           attack == AttacksSlow(lookup.table, lookup.sq, occ)
           hash == wrapping_mul(occ, lookup.magic.magic)
           index == lookup.magic.offset + HashShr(hash, lookup.magic.shift)
       IN  lookup' = [lookup EXCEPT !.attacks[index] = attack,
                                    !.idx = @ + 1,
                                    !.occ = occ]
    /\ lastOp' = "init_attacks"
    /\ UNCHANGED <<board, stack, ply, lastMove, lastFlag, before, fen, moves,
                   count, nodes>>

\* the occupancies a filled window is asked about: every choice of blockers
\* on the mask, alone and with every square off the mask occupied as well
Occupancies(mask) ==
    {OccOfIndex(mask, idx) \cup rest :
        idx \in 0..(TableSize(mask) - 1), rest \in {EMPTY, BitNot(mask)}}

\* ATTACKS[magic.index(occ)] of a filled table
TableLookup(piece, name) ==
    /\ lastOp = "init_attacks"
    /\ lookup.table = piece
    /\ lookup.idx = TableSize(lookup.magic.mask)
    /\ \E occ \in Occupancies(lookup.magic.mask) :
        lookup' = [lookup EXCEPT !.occ = occ,
                                 !.result = lookup.attacks[Magic_index(lookup.magic, occ)]]
    /\ lastOp' = name
    /\ UNCHANGED <<board, stack, ply, lastMove, lastFlag, before, fen, moves,
                   count, nodes>>

\* rook_attacks(sq, occ)
RookAttacks == TableLookup(Rook, "rook_attacks")

\* bishop_attacks(sq, occ)
BishopAttacks == TableLookup(Bishop, "bishop_attacks")

NextMagic == InitAttacks \/ RookAttacks \/ BishopAttacks

SpecMagic == InitMagic /\ [][NextMagic]_vars

\* C26: whatever the occupancy, the table lookup of a rook or bishop square
\* returns the set the slow ray walk computes for that square and occupancy
\* (so no two blocker sets with different attack sets share a slot), and so
\* does the mask-and-walk shortcut rook_attacks / bishop_attacks above
MagicLookupExact ==
    /\ lastOp = "rook_attacks" =>
        /\ lookup.result = rook_attacks_slow(lookup.sq, lookup.occ)
        /\ lookup.result = rook_attacks(lookup.sq, lookup.occ)
    /\ lastOp = "bishop_attacks" =>
        /\ lookup.result = bishop_attacks_slow(lookup.sq, lookup.occ)
        /\ lookup.result = bishop_attacks(lookup.sq, lookup.occ)

\* a lookup with pieces on and off the mask whose blockers cut a ray short
MagicLookupExact_Witness ==
    /\ lastOp \in {"rook_attacks", "bishop_attacks"}
    /\ lookup.occ \cap lookup.magic.mask # EMPTY
    /\ lookup.occ \ lookup.magic.mask # EMPTY
    /\ lookup.result # AttacksSlow(lookup.table, lookup.sq, EMPTY)
    /\ lookup.result = AttacksSlow(lookup.table, lookup.sq, lookup.occ)

\* a rook lookup of that kind
RookLookup_Witness ==
    /\ lastOp = "rook_attacks"
    /\ MagicLookupExact_Witness

\* a rook lookup read from a slot that a second blocker set, one square
\* larger, is mapped to as well
SharedSlot_Witness ==
    /\ RookLookup_Witness
    /\ \E s \in lookup.magic.mask \ lookup.occ :
        Magic_index(lookup.magic, lookup.occ \cup {s}) = Magic_index(lookup.magic, lookup.occ)


(***************************************************************************)
(* The BETWEEN and LINE tables read for a pair of squares.                 *)
(***************************************************************************)
\* a caller holding two squares and neither answer yet
InitLines ==
    /\ board = empty_board
    /\ stack = <<>>
    /\ ply = 0
    /\ lastOp = "static"
    /\ lastMove = MoveNull
    /\ lastFlag = Quiet
    /\ before = empty_board
    /\ fen = <<>>
    /\ moves = <<>>
    /\ count = 0
    /\ nodes = 0
    /\ \E sq1 \in Squares, sq2 \in Squares :
        lookup = [table |-> "lines", sq1 |-> sq1, sq2 |-> sq2,
                  between |-> <<>>, line |-> <<>>]

\* between(sq1, sq2); an answer is kept as a one-element sequence
Between ==
    /\ lookup.table = "lines"
    /\ lookup.between = <<>>
    /\ lookup' = [lookup EXCEPT !.between = <<between(lookup.sq1, lookup.sq2)>>]
    /\ lastOp' = "between"
    /\ UNCHANGED <<board, stack, ply, lastMove, lastFlag, before, fen, moves,
                   count, nodes>>

\* line(sq1, sq2)
Line ==
    /\ lookup.table = "lines"
    /\ lookup.line = <<>>
    /\ lookup' = [lookup EXCEPT !.line = <<line(lookup.sq1, lookup.sq2)>>]
    /\ lastOp' = "line"
    /\ UNCHANGED <<board, stack, ply, lastMove, lastFlag, before, fen, moves,
                   count, nodes>>

NextLines == Between \/ Line

SpecLines == InitLines /\ [][NextLines]_vars

\* x lies on the straight line through s and t
Collinear(s, t, x) ==
    (FileOf(x) - FileOf(s)) * (RankOf(t) - RankOf(s))
        = (RankOf(x) - RankOf(s)) * (FileOf(t) - FileOf(s))

\* every square of the board on the rank, file or diagonal of two aligned
\* squares
RefLine(s, t) ==
    IF Aligned(s, t) THEN {x \in Squares : Collinear(s, t, x)} ELSE {}

\* C27: for two different squares the between table holds the squares
\* strictly between them when they share a rank, file or diagonal and
\* nothing otherwise, the line table holds the whole line through both from
\* edge to edge, both squares included, when they do and nothing otherwise,
\* and either table gives the same answer with the squares exchanged
LinesExact ==
    (lookup.table = "lines" /\ lookup.sq1 # lookup.sq2) =>
        /\ lookup.between # <<>> =>
            /\ lookup.between[1] = StrictlyBetween(lookup.sq1, lookup.sq2)
            /\ lookup.between[1] = between(lookup.sq2, lookup.sq1)
            /\ ~Aligned(lookup.sq1, lookup.sq2) => lookup.between[1] = {}
        /\ lookup.line # <<>> =>
            /\ lookup.line[1] = RefLine(lookup.sq1, lookup.sq2)
            /\ lookup.line[1] = line(lookup.sq2, lookup.sq1)
            /\ Aligned(lookup.sq1, lookup.sq2) =>
                {lookup.sq1, lookup.sq2} \subseteq lookup.line[1]
            /\ ~Aligned(lookup.sq1, lookup.sq2) => lookup.line[1] = {}

\* both tables read for two squares of a diagonal, the higher given first,
\* with squares between them and the line running on past both
LinesExact_Witness ==
    /\ lookup.table = "lines"
    /\ lookup.between # <<>> /\ lookup.line # <<>>
    /\ lookup.sq1 > lookup.sq2
    /\ FileDist(lookup.sq1, lookup.sq2) = RankDist(lookup.sq1, lookup.sq2)
    /\ Cardinality(lookup.between[1]) = 2
    /\ Cardinality(lookup.line[1]) = 8

\* both tables read for two squares that share no line
Unaligned_Witness ==
    /\ lookup.table = "lines"
    /\ lookup.sq1 # lookup.sq2
    /\ ~Aligned(lookup.sq1, lookup.sq2)
    /\ lookup.between = <<{}>> /\ lookup.line = <<{}>>


\* the king and the rook a castling right speaks of: color, king square,
\* rook corner
RightPieces(x) ==
    CASE x = "K" -> <<White, E1, H1>>
      [] x = "Q" -> <<White, E1, A1>>
      [] x = "k" -> <<Black, E8, H8>>
      [] x = "q" -> <<Black, E8, A8>>

\* every right held in the position b has its king and its rook at home
RightsMatch(b) ==
    \A x \in RightsHeld(b.castling) :
        /\ <<RightPieces(x)[2], King, RightPieces(x)[1]>> \in RefAt(b)
        /\ <<RightPieces(x)[3], Rook, RightPieces(x)[1]>> \in RefAt(b)

\* C28: the parsed positions have the king on its e-square and a rook on the
\* corner for every castling right they hold, and so has every position that
\* make_move or make_move_new produce from them by generated moves; a
\* castling move that was made moved such a king and rook
RightsMatchBoard ==
    /\ lastOp = "from_fen" => RightsMatch(board)
    /\ Made =>
        /\ RightsMatch(before)
        /\ RightsMatch(board)
        /\ lastFlag \in {KingCastle, QueenCastle} =>
            /\ <<MoveFrom(lastMove), King, before.turn>> \in RefAt(before)
            /\ MoveFrom(lastMove) = KingHome(before.turn)
            /\ <<castle_rook_from(lastFlag, before.turn), Rook, before.turn>> \in RefAt(before)

\* a second move made from a parsed position: a rook has just left its
\* corner or been taken there, its right is gone, and the mover's opponent
\* or the mover still holds a right with king and rook at home
RightsMatchBoard_Witness ==
    /\ Made
    /\ Len(stack) = 2 \/ lastOp = "make_move_new"
    /\ RightsHeld(board.castling) # {}
    /\ RightsHeld(board.castling) # RightsHeld(before.castling)
    /\ MoveFrom(lastMove) \notin {E1, E8}
    /\ RightsMatch(board)


\* C29: make_move_fast leaves hash, halfmove clock and fullmove number as
\* they were and hands the side to the opponent; unmake_move_fast with the
\* move and its UndoInfo gives back the position the move was made on,
\* every field of it: bitboards, turn, castling, ep square and checkers
\* restored, hash and the two counters untouched by either call
FastRoundTrip ==
    /\ lastOp = "make_move_fast" =>
        /\ board.hash = before.hash
        /\ board.halfmove_clock = before.halfmove_clock
        /\ board.fullmove_number = before.fullmove_number
        /\ board.turn = NotColor(before.turn)
        /\ RefAt(board) = RefApply(RefAt(before),
                                   piece_at_or_pawn(before, MoveFrom(lastMove)),
                                   before.turn, MoveFrom(lastMove),
                                   MoveTo(lastMove), lastFlag)
    /\ lastOp = "unmake_move_fast" =>
        /\ board.pieces = before.pieces
        /\ board.colors = before.colors
        /\ board.turn = before.turn
        /\ board.castling = before.castling
        /\ board.ep_square = before.ep_square
        /\ board.checkers = before.checkers
        /\ board.hash = before.hash
        /\ board.halfmove_clock = before.halfmove_clock
        /\ board.fullmove_number = before.fullmove_number
        /\ board = before

\* an en passant capture made and unmade on the fast path: the pawn taken
\* beside the to-square is back and so is the en passant square
FastRoundTrip_Witness ==
    /\ lastOp = "unmake_move_fast"
    /\ lastFlag = EnPassant
    /\ before.ep_square = {MoveTo(lastMove)}
    /\ make_move_fast_board(before, lastMove).ep_square = {}
    /\ make_move_fast_board(before, lastMove).colors # before.colors
    /\ board = before

\* a capture made and unmade on the fast path that had cost a castling right
FastCastling_Witness ==
    /\ lastOp = "unmake_move_fast"
    /\ is_capture(lastFlag)
    /\ make_move_fast_board(before, lastMove).castling # before.castling
    /\ board = before


\* C30: a generated move that is neither a pawn move nor a capture leaves
\* the halfmove clock one above its previous value, whatever that value was:
\* make_move neither wraps the counter nor aborts on it
HalfmoveClockCounts ==
    /\ (/\ lastOp = "make_move"
        /\ ~RefPawnOrCapture(RefAt(before), before.turn, MoveFrom(lastMove),
                             MoveTo(lastMove), lastFlag))
       => board.halfmove_clock = before.halfmove_clock + 1
    /\ ~(lastOp = "panic" /\ halfmove_overflows(before, lastMove))

====
